---- MODULE Spec2Model ----
(***************************************************************************)
(* Model of the GTM automation pipeline: main() of app.py, the validator   *)
(* of src/schema.py and the remote calls of src/gtm_client.py.             *)
(*                                                                         *)
(* One run of main() is one behaviour.  The parser builds the document     *)
(* entry by entry; every remote request is one step; the remote service    *)
(* answers each request with success or failure, nondeterministically.     *)
(***************************************************************************)
EXTENDS Integers, Sequences, FiniteSets, TLC

(* ------------------------------ bounds --------------------------------- *)

\* size of a document: its entries, plus the required keys they lack, plus
\* the trigger-reference keys its tags hold and the references in them
MaxSize == 6
\* resources of one kind found in the workspace before it is cleared
MaxExisting == 2

\* entries of one "parameter" array
MaxParams == 1
\* entries of one list of a JSON file, rows of one sheet of a workbook
MaxEntries == 2
\* characters in one cell of a sheet
MaxCell == 3
\* accounts the service account can access, containers of one account
MaxAccounts == 2
MaxContainers == 2
\* method calls made on one GTMClient
MaxCalls == 4
\* max_retries of retry_on_failure
MaxRetries == 3
\* size of a document whose entries hold parameter arrays and empty strings
MaxRichSize == 5

\* triggers of a GTM export file
MaxExportTriggers == 2
\* trigger IDs in one list of a tag of a GTM export file
MaxExportRefs == 2

(* ------------------------------ values --------------------------------- *)

\* dict.get(key) of a key the entry does not hold
Missing == "None"

\* a JSON value that is not a string
Number == "<number>"

\* {"type": "string"} of the schema: any string, the empty one included
IsString(x) == x \notin {Missing, Number}

VarNames == {"V"}
TrigNames == {"A", "B"}
TagNames == {"G", "H"}
Types == {"t"}

\* the IDs the remote service assigns to the triggers it creates, in order
RemoteTriggerIds ==
    <<"101", "102", "103", "104", "105", "106", "107", "108", "109">>

SeqUpTo(S, n) == UNION {[1..k -> S] : k \in 0..n}

(* --------------------------- the document ------------------------------ *)

\* an optional list-valued key of a tag: present or not, and its elements;
\* the fields that weigh at most w
RefField(w) ==
    {[present |-> FALSE, names |-> <<>>]}
        \cup {[present |-> TRUE, names |-> s] : s \in SeqUpTo(TrigNames, w - 1)}

EntryDefects(e) ==
    (IF e.name \in {Missing, ""} THEN 1 ELSE 0)
        + (IF e.type \in {Missing, ""} THEN 1 ELSE 0)

RefWeight(field) == IF field.present THEN 1 + Len(field.names) ELSE 0

RECURSIVE SumSeq(_)
SumSeq(s) == IF s = <<>> THEN 0 ELSE Head(s) + SumSeq(Tail(s))

\* the entries of a "parameter" array: key, type and value, each a string,
\* a number or absent
ParamItems ==
    [key : {"k", Missing}, type : {"template", Missing},
     value : {"v", Missing, Number}]

ParamDefects(p) ==
    (IF IsString(p.key) THEN 0 ELSE 1) + (IF IsString(p.type) THEN 0 ELSE 1)
        + (IF IsString(p.value) THEN 0 ELSE 1)

ParamWeight(params) ==
    SumSeq([i \in 1..Len(params) |-> 1 + ParamDefects(params[i])])

PlainWeight(e) == 1 + EntryDefects(e)

VariableWeight(e) == PlainWeight(e) + ParamWeight(e.parameter)

TagWeight(e) ==
    1 + EntryDefects(e) + ParamWeight(e.parameter)
      + RefWeight(e.firingTriggerId) + RefWeight(e.blockingTriggerId)

VariableEntries ==
    [name : VarNames \cup {Missing}, type : Types \cup {Missing},
     parameter : {<<>>}]
TriggerEntries == [name : TrigNames \cup {Missing}, type : Types \cup {Missing}]

Size(d) ==
    SumSeq([i \in 1..Len(d.variables) |-> VariableWeight(d.variables[i])])
        + SumSeq([i \in 1..Len(d.triggers) |-> PlainWeight(d.triggers[i])])
        + SumSeq([i \in 1..Len(d.tags) |-> TagWeight(d.tags[i])])

(* ----------------------------- validator ------------------------------- *)

\* "required": ["name", "type"], both of type string
EntryOk(e) == IsString(e.name) /\ IsString(e.type)

\* "items" of a variable's "parameter": key, type and value required, strings
ParamOk(p) == IsString(p.key) /\ IsString(p.type) /\ IsString(p.value)

\* "items" of "variables"
VariableOk(e) ==
    EntryOk(e) /\ \A i \in 1..Len(e.parameter) : ParamOk(e.parameter[i])

\* "items" of "tags": "parameter" is {"type": "array"}, its items unconstrained
TagOk(e) == EntryOk(e)

\* validate(instance=data, schema=GTM_INPUT_SCHEMA)
validate_input_data(d) ==
    /\ \A i \in 1..Len(d.variables) : VariableOk(d.variables[i])
    /\ \A i \in 1..Len(d.triggers) : EntryOk(d.triggers[i])
    /\ \A i \in 1..Len(d.tags) : TagOk(d.tags[i])

\* trigger_names = {trigger['name'] for trigger in data.get('triggers', [])}
trigger_names(d) == {d.triggers[i].name : i \in 1..Len(d.triggers)}

\* a pass over the references that stops at the first unknown name
InvalidInFirstOnly(tagName, kind, refs, known) ==
    LET unknown == {j \in 1..Len(refs) : refs[j] \notin known} IN
       IF unknown = {} THEN <<>>
       ELSE <<[tag |-> tagName, kind |-> kind,
               trigger |-> refs[CHOOSE j \in unknown : \A k \in unknown : j <= k]]>>

\* one pass of `for trigger_name in tag.get(key, [])`
RECURSIVE InvalidIn(_, _, _, _)
InvalidIn(tagName, kind, refs, known) ==
    IF refs = <<>> THEN <<>>
    ELSE (IF Head(refs) \notin known
            THEN <<[tag |-> tagName, kind |-> kind, trigger |-> Head(refs)]>>
            ELSE <<>>)
         \o InvalidIn(tagName, kind, Tail(refs), known)

\* a tag whose blockingTriggerId is not looked at
InvalidOfTagFiringOnly(tag, known) ==
    InvalidIn(tag.name, "firing", tag.firingTriggerId.names, known)

\* the body of `for tag in data.get('tags', [])`: firing first, then blocking
InvalidOfTag(tag, known) ==
    InvalidIn(tag.name, "firing", tag.firingTriggerId.names, known)
        \o InvalidIn(tag.name, "blocking", tag.blockingTriggerId.names, known)

RECURSIVE InvalidRefsFrom(_, _)
InvalidRefsFrom(tags, known) ==
    IF tags = <<>> THEN <<>>
    ELSE InvalidOfTag(Head(tags), known) \o InvalidRefsFrom(Tail(tags), known)

\* invalid_refs as validate_trigger_references has it after its loop
invalid_refs(d) == InvalidRefsFrom(d.tags, trigger_names(d))

\* a referential check that accepts every document
AcceptAnyReference(d) == TRUE

\* raises ValueError iff invalid_refs is non-empty
validate_trigger_references(d) == invalid_refs(d) = <<>>

(* ------------------------------- state --------------------------------- *)

VARIABLES
    data,            \* the canonical document main() works on
    pc,              \* the position of main()
    stats,           \* the stats dictionary of main()
    exit_code,       \* what main() returns; -1 while it runs
    validation,      \* which checks of validate_all ran, and their outcome
    workspace_path,  \* GTMClient.workspace_path
    trigger_id_map,  \* trigger name -> remote ID, built by the trigger loop
    idx,             \* the position of the running for-loop, from 1
    pending,         \* listed resources clear_workspace has still to delete
    remoteTriggers,  \* triggers the remote service has created in this run
    submitted,       \* create requests received by the remote service, per kind
    lastCall,        \* the last request sent to the remote service
    remote_workspaces, \* workspaces of the run's name the container holds
    output,          \* the known error texts in the run's stdout and stderr
    response,        \* what the upload boundary answers
    export,          \* a GTM export file and what the parser makes of it
    created_triggers, \* created_triggers of main(): what create_trigger returned
    raw,             \* the argument of a function under study, or the
                     \* attributes of the object whose method is
    returned         \* what that function or method returned or raised

vars ==
    <<data, pc, stats, exit_code, validation, workspace_path, trigger_id_map,
      idx, pending, remoteTriggers, submitted, lastCall, remote_workspaces,
      output, response, export, created_triggers, raw, returned>>

NoField == [present |-> FALSE, ids |-> <<>>]

\* a request: the operation, the resource's name, the trigger references
\* of a tag, and for a list or delete request how the service answered
Call(op, name) ==
    [op |-> op, name |-> name, firingTriggerId |-> NoField,
     blockingTriggerId |-> NoField, answer |-> ""]

Answered(op, ok) ==
    [Call(op, "") EXCEPT !.answer = IF ok THEN "ok" ELSE "HttpError"]

NoCall == Call("none", "")

\* the texts the upload boundary looks for in a run's output
NoContainerId == "No GTM container ID provided"
ContainerNotFound == "Could not find GTM container matching identifier"
AuthenticationFailed == "Authentication failed"
UnknownEntityType == "vendorTemplate.key: Unknown entity type"

KnownErrors ==
    {NoContainerId, ContainerNotFound, AuthenticationFailed, UnknownEntityType}

\* the known error texts a message of the model holds
MarkersIn(text) == {text} \cap KnownErrors

NoResponse == [status |-> "none", errorCode |-> "none"]

\* no function of the parser or the resolver is under study
NoArgument == "none"

NoExport == [trigger |-> <<>>, tag |-> <<>>, converted |-> FALSE, tags |-> <<>>]

Init ==
    /\ data = [variables |-> <<>>, triggers |-> <<>>, tags |-> <<>>]
    /\ pc = "input"
    /\ stats = [variables_created |-> 0, triggers_created |-> 0,
                tags_created |-> 0, errors |-> <<>>, status |-> "FAILED"]
    /\ exit_code = -1
    /\ validation = [structural |-> "not_run", referential |-> "not_run",
                     invalid_refs |-> <<>>]
    /\ workspace_path = Missing
    /\ trigger_id_map = <<>>
    /\ idx = 0
    /\ pending = 0
    /\ remoteTriggers = 0
    /\ submitted = [variable |-> 0, trigger |-> 0, tag |-> 0]
    /\ lastCall = NoCall
    /\ remote_workspaces \in 0..1
    /\ output = {}
    /\ response = NoResponse
    /\ export = NoExport
    /\ created_triggers = <<>>
    /\ raw = NoArgument
    /\ returned = NoArgument

(* ------------------------- helpers of main() --------------------------- *)

\* a fatal error that is not recorded in errors
FatalWithoutError(msg) ==
    /\ stats' = [stats EXCEPT !.status = "FAILED"]
    /\ exit_code' = 1
    /\ pc' = "aborted"
    /\ output' = output \cup MarkersIn(msg)

\* `except Exception as e` of main(): the error is logged and appended, the
\* summary is printed, the run fails
Fatal(msg) ==
    /\ stats' = [stats EXCEPT !.errors = Append(@, msg), !.status = "FAILED"]
    /\ exit_code' = 1
    /\ pc' = "aborted"
    /\ output' = output \cup MarkersIn(msg)

\* [x for x in items if x.get('type') == template_type]
RECURSIVE FilterByType(_, _)
FilterByType(items, T) ==
    IF items = <<>> THEN <<>>
    ELSE (IF Head(items).type = T THEN <<Head(items)>> ELSE <<>>)
         \o FilterByType(Tail(items), T)

\* a filter that is applied to the tags only
FilterTagsOnly(d, T) ==
    [variables |-> d.variables, triggers |-> d.triggers,
     tags |-> FilterByType(d.tags, T)]

\* the template filter of main(), applied when --template-type is given
FilterData(d, T) ==
    [variables |-> FilterByType(d.variables, T),
     triggers |-> FilterByType(d.triggers, T),
     tags |-> FilterByType(d.tags, T)]

RECURSIVE JoinRefs(_)
JoinRefs(refs) ==
    IF refs = <<>> THEN ""
    ELSE "\n  - Tag '" \o Head(refs).tag \o "' references non-existent "
         \o Head(refs).kind \o " trigger '" \o Head(refs).trigger \o "'"
         \o JoinRefs(Tail(refs))

\* error_msg of validate_trigger_references
RefErrorMsg(refs) == "Invalid trigger references found:" \o JoinRefs(refs)

CreateErrorMsg(kind, name, cause) ==
    "Failed to create " \o kind \o " '" \o name \o "': " \o cause

(* ------------------------ steps 1 to 4 of main() ----------------------- *)

\* step 2, FileParser.parse_file: the input file holds one more variable or
\* trigger, which the parser appends to the list of its kind
ParseEntry(kind, entries) ==
    /\ pc = "input"
    /\ LET room == MaxSize - Size(data) IN
          \E e \in entries :
             /\ PlainWeight(e) <= room
             /\ data' = [data EXCEPT ![kind] = Append(@, e)]
    /\ UNCHANGED <<pc, stats, exit_code, validation, workspace_path,
                   trigger_id_map, idx, pending, remoteTriggers, submitted,
                   lastCall, output, response, export, remote_workspaces,
                   created_triggers, raw, returned>>

ParseVariable == ParseEntry("variables", VariableEntries)
ParseTrigger == ParseEntry("triggers", TriggerEntries)

\* step 2, FileParser.parse_file: the input file holds one more tag; its
\* firingTriggerId and blockingTriggerId keys are set only when given
ParseTag ==
    /\ pc = "input"
    /\ LET room == MaxSize - Size(data) IN
          \E name \in TagNames \cup {Missing}, type \in Types \cup {Missing} :
             LET left == room - PlainWeight([name |-> name, type |-> type]) IN
                /\ left >= 0
                /\ \E firing \in RefField(left) :
                      \E blocking \in RefField(left - RefWeight(firing)) :
                         data' = [data EXCEPT !.tags =
                                    Append(@, [name |-> name, type |-> type,
                                               parameter |-> <<>>,
                                               firingTriggerId |-> firing,
                                               blockingTriggerId |-> blocking])]
    /\ UNCHANGED <<pc, stats, exit_code, validation, workspace_path,
                   trigger_id_map, idx, pending, remoteTriggers, submitted,
                   lastCall, output, response, export, remote_workspaces,
                   created_triggers, raw, returned>>

\* steps 1 and 2 fail: configuration, file path or parsing raises
ReadInputFails ==
    /\ pc = "input"
    /\ Fatal("input error")
    /\ UNCHANGED <<data, validation, workspace_path, trigger_id_map, idx,
                   pending, remoteTriggers, submitted, lastCall, response,
                   export, remote_workspaces, created_triggers, raw,
                   returned>>

\* step 2 ends; the parsed document is filtered by --template-type
ParseAndFilter ==
    /\ pc = "input"
    /\ \E T \in Types \cup {Missing} :
          data' = IF T = Missing THEN data ELSE FilterData(data, T)
    /\ pc' = "validate"
    /\ UNCHANGED <<stats, exit_code, validation, workspace_path,
                   trigger_id_map, idx, pending, remoteTriggers, submitted,
                   lastCall, output, response, export, remote_workspaces,
                   created_triggers, raw, returned>>

\* a validate_all that runs the referential check first
ValidateAllReferentialFirst ==
    /\ pc = "validate"
    /\ IF ~validate_trigger_references(data)
         THEN /\ validation' = [validation EXCEPT !.referential = "failed",
                                    !.invalid_refs = invalid_refs(data)]
              /\ Fatal(RefErrorMsg(invalid_refs(data)))
         ELSE IF ~validate_input_data(data)
         THEN /\ validation' = [validation EXCEPT !.structural = "failed",
                                                  !.referential = "passed"]
              /\ Fatal("'name' is a required property")
         ELSE /\ validation' = [validation EXCEPT !.structural = "passed",
                                                  !.referential = "passed"]
              /\ pc' = "dry_run"
              /\ UNCHANGED <<stats, exit_code, output>>
    /\ UNCHANGED <<data, workspace_path, trigger_id_map, idx, pending,
                   remoteTriggers, submitted, lastCall, response, export,
                   remote_workspaces, created_triggers, raw, returned>>

\* step 3: validate_all(data)
ValidateAll ==
    /\ pc = "validate"
    /\ IF ~validate_input_data(data)
         THEN /\ validation' = [validation EXCEPT !.structural = "failed"]
              /\ Fatal("'name' is a required property")
         ELSE IF ~validate_trigger_references(data)
         THEN /\ validation' = [structural |-> "passed",
                                referential |-> "failed",
                                invalid_refs |-> invalid_refs(data)]
              /\ Fatal(RefErrorMsg(invalid_refs(data)))
         ELSE /\ validation' = [validation EXCEPT !.structural = "passed",
                                                  !.referential = "passed"]
              /\ pc' = "dry_run"
              /\ UNCHANGED <<stats, exit_code, output>>
    /\ UNCHANGED <<data, workspace_path, trigger_id_map, idx, pending,
                   remoteTriggers, submitted, lastCall, response, export,
                   remote_workspaces, created_triggers, raw, returned>>

\* a dry-run check that comes after the client is constructed
DryRunAfterAuthentication ==
    /\ pc = "dry_run"
    /\ \E dry_run \in BOOLEAN :
          IF dry_run
            THEN /\ stats' = [stats EXCEPT !.status = "DRY_RUN_SUCCESS"]
                 /\ exit_code' = 0
                 /\ pc' = "dry_run_done"
                 /\ lastCall' = Call("authenticate", "")
            ELSE /\ pc' = "resolve"
                 /\ UNCHANGED <<stats, exit_code, lastCall>>
    /\ UNCHANGED <<data, validation, workspace_path, trigger_id_map, idx,
                   pending, remoteTriggers, submitted, output, response,
                   export, remote_workspaces, created_triggers, raw,
                   returned>>

\* `if args.dry_run`
DryRunCheck ==
    /\ pc = "dry_run"
    /\ \E dry_run \in BOOLEAN :
          IF dry_run
            THEN /\ stats' = [stats EXCEPT !.status = "DRY_RUN_SUCCESS"]
                 /\ exit_code' = 0
                 /\ pc' = "dry_run_done"
                 /\ UNCHANGED output
            ELSE /\ pc' = "resolve"
                 /\ UNCHANGED <<stats, exit_code, output>>
    /\ UNCHANGED <<data, validation, workspace_path, trigger_id_map, idx,
                   pending, remoteTriggers, submitted, lastCall, response,
                   export, remote_workspaces, created_triggers, raw,
                   returned>>

\* step 4, first half: container and account identifiers
ResolveContainer ==
    /\ pc = "resolve"
    /\ \E has_container \in BOOLEAN, has_account \in BOOLEAN,
          outcome \in {"found", "not_found", "error", "credentials"} :
          IF ~has_container
            THEN /\ Fatal(NoContainerId)
                 /\ UNCHANGED lastCall
            ELSE IF has_account
            THEN /\ pc' = "authenticate"
                 /\ UNCHANGED <<stats, exit_code, lastCall, output>>
            ELSE /\ lastCall' = Call("listAccounts", "")
                 /\ IF outcome = "found"
                      THEN /\ pc' = "authenticate"
                           /\ UNCHANGED <<stats, exit_code, output>>
                      ELSE IF outcome = "not_found"
                      THEN Fatal(ContainerNotFound)
                      ELSE IF outcome = "error"
                      THEN Fatal("HttpError of accounts.list")
                      ELSE Fatal("credentials error")
    /\ UNCHANGED <<data, validation, workspace_path, trigger_id_map, idx,
                   pending, remoteTriggers, submitted, response, export,
                   remote_workspaces, created_triggers, raw, returned>>

\* a failed authentication that is recorded and then ignored
AuthenticateFailureIgnored ==
    /\ pc = "authenticate"
    /\ lastCall' = Call("authenticate", "")
    /\ \E ok \in BOOLEAN :
          IF ok
            THEN UNCHANGED <<stats, output>>
            ELSE /\ stats' = [stats EXCEPT
                               !.errors = Append(@, "credentials error")]
                 /\ output' = output \cup {AuthenticationFailed}
    /\ pc' = "list_workspaces"
    /\ UNCHANGED <<data, exit_code, validation, workspace_path,
                   trigger_id_map, idx, pending, remoteTriggers, submitted,
                   response, export, remote_workspaces, created_triggers,
                   raw, returned>>

\* step 4, second half: GTMClient(...) and its _authenticate
Authenticate ==
    /\ pc = "authenticate"
    /\ lastCall' = Call("authenticate", "")
    /\ \E ok \in BOOLEAN :
          IF ok
            THEN /\ pc' = "list_workspaces"
                 /\ UNCHANGED <<stats, exit_code, output>>
            ELSE /\ stats' = [stats EXCEPT
                               !.errors = Append(@, "credentials error"),
                               !.status = "FAILED"]
                 /\ exit_code' = 1
                 /\ pc' = "aborted"
                 /\ output' = output \cup {AuthenticationFailed}
    /\ UNCHANGED <<data, validation, workspace_path, trigger_id_map, idx,
                   pending, remoteTriggers, submitted, response, export,
                   remote_workspaces, created_triggers, raw, returned>>

(* --------------------- step 5: workspace preparation ------------------- *)

\* get_or_create_workspace, first half: list_workspaces and the name search;
\* a failed listing returns [] and so looks like "no such workspace"
ListWorkspaces ==
    /\ pc = "list_workspaces"
    /\ lastCall' = Call("listWorkspaces", "")
    /\ \E listed \in BOOLEAN :
          IF listed /\ remote_workspaces > 0
            THEN /\ workspace_path' = "workspaces/1"
                 /\ pc' = "clear_tags"
            ELSE /\ pc' = "create_workspace"
                 /\ UNCHANGED workspace_path
    /\ UNCHANGED <<data, stats, exit_code, validation, trigger_id_map,
                   idx, pending, remoteTriggers, submitted, output,
                   response, export, remote_workspaces, created_triggers,
                   raw, returned>>

\* get_or_create_workspace, second half: create_workspace
CreateWorkspace ==
    /\ pc = "create_workspace"
    /\ lastCall' = Call("createWorkspace", "")
    /\ \E ok \in BOOLEAN :
          IF ok
            THEN /\ workspace_path' = "workspaces/2"
                 /\ remote_workspaces' = remote_workspaces + 1
                 /\ pc' = "clear_tags"
                 /\ UNCHANGED <<stats, exit_code, output>>
            ELSE /\ Fatal("HttpError")
                 /\ UNCHANGED <<workspace_path, remote_workspaces>>
    /\ UNCHANGED <<data, validation, trigger_id_map, idx, pending,
                   remoteTriggers, submitted, response, export,
                   created_triggers, raw, returned>>

\* a clearing order in which the variables go before the triggers
AfterClearVariablesFirst(at) ==
    IF at = "delete_tags" THEN "clear_variables"
    ELSE IF at = "delete_variables" THEN "clear_triggers"
    ELSE "create_variables"

\* where clear_workspace goes once the resources of one kind are dealt with
AfterClear(at) ==
    IF at = "delete_tags" THEN "clear_triggers"
    ELSE IF at = "delete_triggers" THEN "clear_variables"
    ELSE "create_variables"

\* one `list(parent=workspace_path)` of clear_workspace: n resources are
\* listed, or the listing fails and the kind is skipped with a warning
ListExisting(at, op, deleting) ==
    /\ pc = at
    /\ \E n \in 0..MaxExisting, ok \in BOOLEAN :
          /\ lastCall' = Answered(op, ok)
          /\ pending' = IF ok THEN n ELSE 0
          /\ pc' = IF pending' = 0 THEN AfterClear(deleting) ELSE deleting
    /\ idx' = IF pc' = "create_variables" THEN 1 ELSE idx
    /\ UNCHANGED <<data, stats, exit_code, validation, workspace_path,
                   trigger_id_map, remoteTriggers, submitted, output,
                   response, export, remote_workspaces, created_triggers,
                   raw, returned>>

\* a deletion loop that a failed delete ends
DeleteExistingStopsOnFailure(at, op) ==
    /\ pc = at
    /\ pending > 0
    /\ \E ok \in BOOLEAN :
          /\ lastCall' = Answered(op, ok)
          /\ pending' = pending - 1
          /\ pc' = IF pending' = 0 \/ ~ok THEN AfterClear(at) ELSE at
    /\ idx' = IF pc' = "create_variables" THEN 1 ELSE idx
    /\ UNCHANGED <<data, stats, exit_code, validation, workspace_path,
                   trigger_id_map, remoteTriggers, submitted, output,
                   response, export, remote_workspaces, created_triggers,
                   raw, returned>>

\* one `delete(path=...)` of clear_workspace: a failure is logged, not raised
DeleteExisting(at, op) ==
    /\ pc = at
    /\ pending > 0
    /\ \E ok \in BOOLEAN :
          /\ lastCall' = Answered(op, ok)
          /\ pending' = pending - 1
          /\ pc' = IF pending' = 0 THEN AfterClear(at) ELSE at
    /\ idx' = IF pc' = "create_variables" THEN 1 ELSE idx
    /\ UNCHANGED <<data, stats, exit_code, validation, workspace_path,
                   trigger_id_map, remoteTriggers, submitted, output,
                   response, export, remote_workspaces, created_triggers,
                   raw, returned>>

ListTags == ListExisting("clear_tags", "listTags", "delete_tags")
DeleteTag == DeleteExisting("delete_tags", "deleteTag")
ListTriggers == ListExisting("clear_triggers", "listTriggers", "delete_triggers")
DeleteTrigger == DeleteExisting("delete_triggers", "deleteTrigger")
ListVariables ==
    ListExisting("clear_variables", "listVariables", "delete_variables")
DeleteVariable == DeleteExisting("delete_variables", "deleteVariable")

(* ------------------------ step 6: creation loops ----------------------- *)

\* a request that is sent a second time
SubmitTwice(kind) == [submitted EXCEPT ![kind] = @ + 2]

\* resources the remote service is asked to create, counted per kind
Submit(kind) == [submitted EXCEPT ![kind] = @ + 1]

\* a variables loop that counts a variable whether or not it was created
CreateVariableCountsFailures ==
    /\ pc = "create_variables"
    /\ idx <= Len(data.variables)
    /\ lastCall' = Call("createVariable", data.variables[idx].name)
    /\ submitted' = [submitted EXCEPT !.variable = @ + 1]
    /\ \E ok \in BOOLEAN :
          stats' =
              IF ok
                THEN [stats EXCEPT !.variables_created = @ + 1]
                ELSE [stats EXCEPT
                        !.variables_created = @ + 1,
                        !.errors = Append(@, "Failed to create variable '"
                                     \o data.variables[idx].name
                                     \o "': HttpError")]
    /\ idx' = idx + 1
    /\ UNCHANGED <<data, pc, exit_code, validation, workspace_path,
                   trigger_id_map, pending, remoteTriggers, output, response,
                   export, remote_workspaces, created_triggers, raw,
                   returned>>

\* one iteration of `for variable_data in data['variables']`
CreateVariable ==
    /\ pc = "create_variables"
    /\ idx <= Len(data.variables)
    /\ LET v == data.variables[idx] IN
          /\ lastCall' = Call("createVariable", v.name)
          /\ submitted' = Submit("variable")
          /\ \E ok \in BOOLEAN :
                stats' =
                    IF ok
                      THEN [stats EXCEPT !.variables_created = @ + 1]
                      ELSE [stats EXCEPT !.errors =
                              Append(@, CreateErrorMsg("variable", v.name, "HttpError"))]
    /\ idx' = idx + 1
    /\ UNCHANGED <<data, pc, exit_code, validation, workspace_path,
                   trigger_id_map, pending, remoteTriggers, output, response,
                   export, remote_workspaces, created_triggers, raw,
                   returned>>

\* a variables loop that is followed by the tags loop
VariablesDoneSkipsTriggers ==
    /\ pc = "create_variables"
    /\ idx > Len(data.variables)
    /\ pc' = "create_tags"
    /\ idx' = 1
    /\ trigger_id_map' = <<>>
    /\ created_triggers' = <<>>
    /\ UNCHANGED <<data, stats, exit_code, validation, workspace_path,
                   pending, remoteTriggers, submitted, lastCall, output,
                   response, export, remote_workspaces, raw, returned>>

\* the variables loop ends; `trigger_id_map = {}`
VariablesDone ==
    /\ pc = "create_variables"
    /\ idx > Len(data.variables)
    /\ pc' = "create_triggers"
    /\ idx' = 1
    /\ trigger_id_map' = <<>>
    /\ created_triggers' = <<>>
    /\ UNCHANGED <<data, stats, exit_code, validation, workspace_path,
                   pending, remoteTriggers, submitted, lastCall, output,
                   response, export, remote_workspaces, raw, returned>>

\* an assignment that keeps the value a key already has
MapPutIfAbsent(m, k, v) ==
    [n \in DOMAIN m \cup {k} |-> IF n \in DOMAIN m THEN m[n] ELSE v]

\* trigger_id_map[name] = id
MapPut(m, k, v) == [n \in DOMAIN m \cup {k} |-> IF n = k THEN v ELSE m[n]]

\* {trigger['name']: trigger['triggerId'] for trigger in triggers}
RECURSIVE create_trigger_id_map(_)
create_trigger_id_map(triggers) ==
    IF triggers = <<>> THEN <<>>
    ELSE MapPut(create_trigger_id_map(SubSeq(triggers, 1, Len(triggers) - 1)),
                triggers[Len(triggers)].name,
                triggers[Len(triggers)].triggerId)

\* a triggers loop that records the name of a trigger it failed to create
CreateTriggerMapsFailures ==
    /\ pc = "create_triggers"
    /\ idx <= Len(data.triggers)
    /\ LET t == data.triggers[idx] IN
          /\ lastCall' = Call("createTrigger", t.name)
          /\ submitted' = Submit("trigger")
          /\ \E ok \in BOOLEAN :
                IF ok
                  THEN LET trigger == [name |-> t.name,
                                       triggerId |-> RemoteTriggerIds[remoteTriggers + 1]]
                       IN /\ remoteTriggers' = remoteTriggers + 1
                          /\ created_triggers' = Append(created_triggers, trigger)
                          /\ trigger_id_map' =
                                MapPut(trigger_id_map, trigger.name, trigger.triggerId)
                          /\ stats' = [stats EXCEPT !.triggers_created = @ + 1]
                  ELSE /\ stats' = [stats EXCEPT !.errors =
                              Append(@, CreateErrorMsg("trigger", t.name, "HttpError"))]
                       /\ trigger_id_map' = MapPut(trigger_id_map, t.name, "0")
                       /\ UNCHANGED <<remoteTriggers, created_triggers>>
    /\ idx' = idx + 1
    /\ UNCHANGED <<data, pc, exit_code, validation, workspace_path,
                   pending, output, response, export, remote_workspaces,
                   raw, returned>>

\* one iteration of `for trigger_data in data['triggers']`; the trigger the
\* remote service returns carries the submitted name and a fresh triggerId
CreateTrigger ==
    /\ pc = "create_triggers"
    /\ idx <= Len(data.triggers)
    /\ LET t == data.triggers[idx] IN
          /\ lastCall' = Call("createTrigger", t.name)
          /\ submitted' = Submit("trigger")
          /\ \E ok \in BOOLEAN :
                IF ok
                  THEN LET trigger == [name |-> t.name,
                                       triggerId |-> RemoteTriggerIds[remoteTriggers + 1]]
                       IN /\ remoteTriggers' = remoteTriggers + 1
                          /\ created_triggers' = Append(created_triggers, trigger)
                          /\ trigger_id_map' =
                                MapPut(trigger_id_map, trigger.name, trigger.triggerId)
                          /\ stats' = [stats EXCEPT !.triggers_created = @ + 1]
                  ELSE /\ stats' = [stats EXCEPT !.errors =
                              Append(@, CreateErrorMsg("trigger", t.name, "HttpError"))]
                       /\ UNCHANGED <<remoteTriggers, trigger_id_map,
                                      created_triggers>>
    /\ idx' = idx + 1
    /\ UNCHANGED <<data, pc, exit_code, validation, workspace_path,
                   pending, output, response, export, remote_workspaces,
                   raw, returned>>

\* the triggers loop ends
TriggersDone ==
    /\ pc = "create_triggers"
    /\ idx > Len(data.triggers)
    /\ pc' = "create_tags"
    /\ idx' = 1
    /\ UNCHANGED <<data, stats, exit_code, validation, workspace_path,
                   trigger_id_map, pending, remoteTriggers, submitted,
                   lastCall, output, response, export, remote_workspaces,
                   created_triggers, raw, returned>>

\* a resolution that sends an unknown name as it is
MapNamesKeepRaw(names, map) ==
    [i \in 1..Len(names) |->
        IF names[i] \in DOMAIN map THEN map[names[i]] ELSE names[i]]

\* the loop of create_tag over one list of trigger names: a name of the map
\* gives its ID, any other name is dropped with a warning
RECURSIVE MapNamesToIds(_, _)
MapNamesToIds(names, map) ==
    IF names = <<>> THEN <<>>
    ELSE (IF Head(names) \in DOMAIN map THEN <<map[Head(names)]>> ELSE <<>>)
         \o MapNamesToIds(Tail(names), map)

\* a body that holds every key the tag holds, whatever the map
BodyFieldOfEveryKey(field, map) ==
    IF field.present
      THEN [present |-> TRUE, ids |-> MapNamesToIds(field.names, map)]
      ELSE NoField

\* `if key in tag_data and trigger_id_map:` of create_tag
BodyField(field, map) ==
    IF field.present /\ DOMAIN map # {}
      THEN [present |-> TRUE, ids |-> MapNamesToIds(field.names, map)]
      ELSE NoField

\* tag_body of create_tag
tag_body(tag, map) ==
    [op |-> "createTag", name |-> tag.name,
     firingTriggerId |-> BodyField(tag.firingTriggerId, map),
     blockingTriggerId |-> BodyField(tag.blockingTriggerId, map),
     answer |-> ""]

\* a create_tag that writes the IDs it has resolved into the tag it was given
CreateTagResolvesInPlace ==
    /\ pc = "create_tags"
    /\ idx <= Len(data.tags)
    /\ LET g == data.tags[idx] IN
          /\ lastCall' = tag_body(g, trigger_id_map)
          /\ data' = [data EXCEPT
                        !.tags[idx].firingTriggerId.names =
                            lastCall'.firingTriggerId.ids,
                        !.tags[idx].blockingTriggerId.names =
                            lastCall'.blockingTriggerId.ids]
          /\ submitted' = Submit("tag")
          /\ \E ok \in BOOLEAN :
                stats' =
                    IF ok
                      THEN [stats EXCEPT !.tags_created = @ + 1]
                      ELSE [stats EXCEPT !.errors =
                              Append(@, CreateErrorMsg("tag", g.name, "HttpError"))]
    /\ idx' = idx + 1
    /\ UNCHANGED <<pc, exit_code, validation, workspace_path,
                   trigger_id_map, pending, remoteTriggers, output, response,
                   export, remote_workspaces, created_triggers, raw,
                   returned>>

\* one iteration of `for tag_data in data['tags']`
CreateTag ==
    /\ pc = "create_tags"
    /\ idx <= Len(data.tags)
    /\ LET g == data.tags[idx] IN
          /\ lastCall' = tag_body(g, trigger_id_map)
          /\ submitted' = Submit("tag")
          /\ \E ok \in BOOLEAN :
                stats' =
                    IF ok
                      THEN [stats EXCEPT !.tags_created = @ + 1]
                      ELSE [stats EXCEPT !.errors =
                              Append(@, CreateErrorMsg("tag", g.name, "HttpError"))]
    /\ idx' = idx + 1
    /\ UNCHANGED <<data, pc, exit_code, validation, workspace_path,
                   trigger_id_map, pending, remoteTriggers, output, response,
                   export, remote_workspaces, created_triggers, raw,
                   returned>>

(* --------------------------- step 7: status ---------------------------- *)

total_expected(d) == Len(d.variables) + Len(d.triggers) + Len(d.tags)

total_created(st) ==
    st.variables_created + st.triggers_created + st.tags_created

\* a status that looks only at whether anything was created
FinalStatusAnyCreated(d, st) ==
    IF total_created(st) > 0 THEN "SUCCESS" ELSE "FAILED"

\* "Determine status" of main()
FinalStatus(d, st) ==
    IF total_created(st) = total_expected(d) /\ st.errors = <<>> THEN "SUCCESS"
    ELSE IF total_created(st) > 0 THEN "PARTIAL_SUCCESS"
    ELSE "FAILED"

\* a step 7 that returns 0 whenever something was created
FinalizePartialExitsZero ==
    /\ pc = "create_tags"
    /\ idx > Len(data.tags)
    /\ stats' = [stats EXCEPT !.status = FinalStatus(data, stats)]
    /\ exit_code' = IF stats'.status = "FAILED" THEN 1 ELSE 0
    /\ pc' = "finalized"
    /\ UNCHANGED <<data, validation, workspace_path, trigger_id_map, idx,
                   pending, remoteTriggers, submitted, lastCall, output,
                   response, export, remote_workspaces, created_triggers,
                   raw, returned>>

\* the tags loop ends; step 7 sets the status and main() returns
Finalize ==
    /\ pc = "create_tags"
    /\ idx > Len(data.tags)
    /\ stats' = [stats EXCEPT !.status = FinalStatus(data, stats)]
    /\ exit_code' = IF stats'.status = "SUCCESS" THEN 0 ELSE 1
    /\ pc' = "finalized"
    /\ UNCHANGED <<data, validation, workspace_path, trigger_id_map, idx,
                   pending, remoteTriggers, submitted, lastCall, output,
                   response, export, remote_workspaces, created_triggers,
                   raw, returned>>

\* the final positions, but for the one after a fatal error
TerminalUnlessAborted == {"dry_run_done", "finalized", "interrupted"}

\* the positions main() has returned at
Terminal == {"aborted", "dry_run_done", "finalized", "interrupted"}

\* an interrupt that is handled like any other exception
InterruptAsFatal ==
    /\ pc \notin Terminal
    /\ stats' = [stats EXCEPT !.errors = Append(@, "KeyboardInterrupt"),
                              !.status = "FAILED"]
    /\ exit_code' = 1
    /\ pc' = "interrupted"
    /\ UNCHANGED <<data, validation, workspace_path, trigger_id_map, idx,
                   pending, remoteTriggers, submitted, lastCall, output,
                   response, export, remote_workspaces, created_triggers,
                   raw, returned>>

\* `except KeyboardInterrupt`, raised anywhere inside the try block
Interrupt ==
    /\ pc \notin Terminal
    /\ stats' = [stats EXCEPT !.status = "INTERRUPTED"]
    /\ exit_code' = 130
    /\ pc' = "interrupted"
    /\ UNCHANGED <<data, validation, workspace_path, trigger_id_map, idx,
                   pending, remoteTriggers, submitted, lastCall, output,
                   response, export, remote_workspaces, created_triggers,
                   raw, returned>>

Next ==
    \/ ParseVariable
    \/ ParseTrigger
    \/ ParseTag
    \/ ReadInputFails
    \/ ParseAndFilter
    \/ ValidateAll
    \/ DryRunCheck
    \/ ResolveContainer
    \/ Authenticate
    \/ ListWorkspaces
    \/ CreateWorkspace
    \/ ListTags
    \/ DeleteTag
    \/ ListTriggers
    \/ DeleteTrigger
    \/ ListVariables
    \/ DeleteVariable
    \/ CreateVariable
    \/ VariablesDone
    \/ CreateTrigger
    \/ TriggersDone
    \/ CreateTag
    \/ Finalize
    \/ Interrupt

Spec == Init /\ [][Next]_vars

(* ------------------ canonical JSON, passed through as it is ------------- *)

\* what a canonical JSON file can hold where the schema asks for a string
RichNames(names) == names \cup {"", Missing}

RichVariables ==
    [name : RichNames({"V"}), type : RichNames(Types),
     parameter : SeqUpTo(ParamItems, MaxParams)]

RichTriggers == [name : RichNames({"A"}), type : RichNames(Types)]

RichTags ==
    [name : RichNames({"G"}), type : RichNames(Types),
     parameter : SeqUpTo(ParamItems, MaxParams),
     firingTriggerId : {[present |-> FALSE, names |-> <<>>],
                        [present |-> TRUE, names |-> <<"A">>]},
     blockingTriggerId : {[present |-> FALSE, names |-> <<>>]}]

\* canonical documents with at most one entry of each kind
RichDocuments ==
    {d \in [variables : SeqUpTo(RichVariables, 1),
            triggers : SeqUpTo(RichTriggers, 1),
            tags : SeqUpTo(RichTags, 1)] : Size(d) <= MaxRichSize}

\* parse_json has returned a canonical JSON document, unchanged
SchemaInit ==
    /\ data \in RichDocuments
    /\ pc = "validate"
    /\ stats = [variables_created |-> 0, triggers_created |-> 0,
                tags_created |-> 0, errors |-> <<>>, status |-> "FAILED"]
    /\ exit_code = -1
    /\ validation = [structural |-> "not_run", referential |-> "not_run",
                     invalid_refs |-> <<>>]
    /\ workspace_path = Missing
    /\ trigger_id_map = <<>>
    /\ idx = 0
    /\ pending = 0
    /\ remoteTriggers = 0
    /\ submitted = [variable |-> 0, trigger |-> 0, tag |-> 0]
    /\ lastCall = NoCall
    /\ remote_workspaces \in 0..1
    /\ output = {}
    /\ response = NoResponse
    /\ export = NoExport
    /\ created_triggers = <<>>
    /\ raw = NoArgument
    /\ returned = NoArgument

\* main() from step 3 on
SchemaNext ==
    \/ ValidateAll
    \/ DryRunCheck
    \/ ResolveContainer
    \/ Authenticate
    \/ ListWorkspaces
    \/ CreateWorkspace
    \/ ListTags
    \/ DeleteTag
    \/ ListTriggers
    \/ DeleteTrigger
    \/ ListVariables
    \/ DeleteVariable
    \/ CreateVariable
    \/ VariablesDone
    \/ CreateTrigger
    \/ TriggersDone
    \/ CreateTag
    \/ Finalize
    \/ Interrupt

SchemaSpec == SchemaInit /\ [][SchemaNext]_vars

(* ------------------------- the upload boundary ------------------------- *)

\* what a finished `python app.py` process can return: main()'s 0, 1 and
\* 130, and the 2 of argparse
ReturnCodes == {0, 1, 2, 130}

\* an upload that looks for the authentication text first
uploadAuthenticationFirst(returncode, full_output) ==
    IF returncode = 0 THEN [status |-> "SUCCESS", errorCode |-> "null"]
    ELSE [status |-> "FAILED",
          errorCode |->
             IF AuthenticationFailed \in full_output THEN "AUTH_FAILED"
             ELSE IF NoContainerId \in full_output THEN "MISSING_CONTAINER_ID"
             ELSE IF ContainerNotFound \in full_output
               THEN "CONTAINER_NOT_FOUND"
             ELSE IF UnknownEntityType \in full_output THEN "UNKNOWN_TEMPLATE"
             ELSE "UNKNOWN_ERROR"]

\* status and errorCode of upload(), from the process's return code and the
\* known error texts in stdout + "\n" + stderr
upload(returncode, full_output) ==
    IF returncode = 0 THEN [status |-> "SUCCESS", errorCode |-> "null"]
    ELSE [status |-> "FAILED",
          errorCode |->
             IF NoContainerId \in full_output THEN "MISSING_CONTAINER_ID"
             ELSE IF ContainerNotFound \in full_output
               THEN "CONTAINER_NOT_FOUND"
             ELSE IF AuthenticationFailed \in full_output THEN "AUTH_FAILED"
             ELSE IF UnknownEntityType \in full_output THEN "UNKNOWN_TEMPLATE"
             ELSE "UNKNOWN_ERROR"]

\* a finished process, with any return code and any output
UploadInit ==
    /\ data = [variables |-> <<>>, triggers |-> <<>>, tags |-> <<>>]
    /\ pc = "exited"
    /\ stats = [variables_created |-> 0, triggers_created |-> 0,
                tags_created |-> 0, errors |-> <<>>, status |-> "FAILED"]
    /\ exit_code \in ReturnCodes
    /\ validation = [structural |-> "not_run", referential |-> "not_run",
                     invalid_refs |-> <<>>]
    /\ workspace_path = Missing
    /\ trigger_id_map = <<>>
    /\ idx = 0
    /\ pending = 0
    /\ remoteTriggers = 0
    /\ submitted = [variable |-> 0, trigger |-> 0, tag |-> 0]
    /\ lastCall = NoCall
    /\ remote_workspaces = 0
    /\ output \in SUBSET KnownErrors
    /\ response = NoResponse
    /\ export = NoExport
    /\ created_triggers = <<>>
    /\ raw = NoArgument
    /\ returned = NoArgument

\* upload() answers once `subprocess.run` has returned
Upload ==
    /\ pc = "exited"
    /\ response = NoResponse
    /\ response' = upload(exit_code, output)
    /\ UNCHANGED <<data, pc, stats, exit_code, validation, workspace_path,
                   trigger_id_map, idx, pending, remoteTriggers, submitted,
                   lastCall, remote_workspaces, output, export,
                   created_triggers, raw, returned>>

UploadSpec == UploadInit /\ [][Upload]_vars

(* ------------------------- export-form conversion ---------------------- *)

ExportIds == {"12", "13", "99"}
\* trigger names of an export; one of them reads like a trigger ID
ExportNames == {"T1", "T2", "99"}

\* the triggers of containerVersion: triggerId and name
ExportTriggers ==
    SeqUpTo([triggerId : ExportIds \ {"99"}, name : ExportNames,
             type : Types],
            MaxExportTriggers)

\* firingTriggerId or blockingTriggerId of a tag of containerVersion
ExportField ==
    {[present |-> FALSE, names |-> <<>>]}
        \cup {[present |-> TRUE, names |-> ids] :
                 ids \in SeqUpTo(ExportIds, MaxExportRefs)}

\* a mapping that drops the IDs no trigger has
map_known_trigger_ids_only(trigger_ids, triggers) ==
    LET known == {triggers[k].triggerId : k \in 1..Len(triggers)}
        kept == SelectSeq(trigger_ids, LAMBDA tid : tid \in known)
    IN [i \in 1..Len(kept) |->
          triggers[CHOOSE k \in 1..Len(triggers) :
                      triggers[k].triggerId = kept[i]].name]

\* trigger_map = {t.get('triggerId'): t.get('name') for t in triggers}
RECURSIVE trigger_map(_)
trigger_map(triggers) ==
    IF triggers = <<>> THEN <<>>
    ELSE LET n == Len(triggers) IN
            MapPut(trigger_map(SubSeq(triggers, 1, n - 1)),
                   triggers[n].triggerId, triggers[n].name)

\* FileParser._map_trigger_ids_to_names
map_trigger_ids_to_names(trigger_ids, triggers) ==
    LET m == trigger_map(triggers) IN
       [i \in 1..Len(trigger_ids) |->
           IF trigger_ids[i] \in DOMAIN m THEN m[trigger_ids[i]]
           ELSE trigger_ids[i]]

\* `if key in tag:` of _convert_gtm_export, for one of the two keys
ConvertField(field, triggers) ==
    IF field.present
      THEN [present |-> TRUE,
            names |-> map_trigger_ids_to_names(field.names, triggers)]
      ELSE [present |-> FALSE, names |-> <<>>]

\* "Convert parameters": key as it is, type forced, value '' when absent
convert_parameters(params) ==
    [i \in 1..Len(params) |->
        [key |-> params[i].key, type |-> "template",
         value |-> IF params[i].value = Missing THEN "" ELSE params[i].value]]

\* the tags loop of _convert_gtm_export
convert_tags(tags, triggers) ==
    [i \in 1..Len(tags) |->
        [name |-> tags[i].name, type |-> tags[i].type,
         parameter |-> convert_parameters(tags[i].parameter),
         firingTriggerId |-> ConvertField(tags[i].firingTriggerId, triggers),
         blockingTriggerId |->
            ConvertField(tags[i].blockingTriggerId, triggers)]]

\* a GTM export file with one tag has been read
ExportInit ==
    /\ data = [variables |-> <<>>, triggers |-> <<>>, tags |-> <<>>]
    /\ pc = "export"
    /\ stats = [variables_created |-> 0, triggers_created |-> 0,
                tags_created |-> 0, errors |-> <<>>, status |-> "FAILED"]
    /\ exit_code = -1
    /\ validation = [structural |-> "not_run", referential |-> "not_run",
                     invalid_refs |-> <<>>]
    /\ workspace_path = Missing
    /\ trigger_id_map = <<>>
    /\ idx = 0
    /\ pending = 0
    /\ remoteTriggers = 0
    /\ submitted = [variable |-> 0, trigger |-> 0, tag |-> 0]
    /\ lastCall = NoCall
    /\ remote_workspaces = 0
    /\ output = {}
    /\ response = NoResponse
    /\ created_triggers = <<>>
    /\ raw = NoArgument
    /\ returned = NoArgument
    /\ \E triggers \in ExportTriggers, firing \in ExportField,
          blocking \in ExportField :
          export = [trigger |-> triggers,
                    tag |-> <<[name |-> "G", type |-> "t",
                               parameter |-> <<>>,
                               firingTriggerId |-> firing,
                               blockingTriggerId |-> blocking]>>,
                    converted |-> FALSE, tags |-> <<>>]

\* the triggers loop of _convert_gtm_export
convert_triggers(triggers) ==
    [i \in 1..Len(triggers) |->
        [name |-> triggers[i].name, type |-> triggers[i].type]]

\* parse_json on a file with 'containerVersion': _convert_gtm_export returns
\* the document main() goes on with
ConvertExport ==
    /\ pc = "export"
    /\ ~export.converted
    /\ export' = [export EXCEPT !.converted = TRUE,
                                !.tags = convert_tags(export.tag, export.trigger)]
    /\ data' = [variables |-> <<>>,
                triggers |-> convert_triggers(export.trigger),
                tags |-> convert_tags(export.tag, export.trigger)]
    /\ pc' = "validate"
    /\ UNCHANGED <<stats, exit_code, validation, workspace_path,
                   trigger_id_map, idx, pending, remoteTriggers, submitted,
                   lastCall, remote_workspaces, output, response,
                   created_triggers, raw, returned>>

\* steps 2 and 3 of main() on a GTM export file
ExportNext ==
    \/ ConvertExport
    \/ ValidateAll

ExportSpec == ExportInit /\ [][ExportNext]_vars

(* ------------------------- FileParser.parse_file ----------------------- *)

\* dict.get(key, default) of a JSON object, a function of its keys
Get(object, key, default) ==
    IF key \in DOMAIN object THEN object[key] ELSE default

\* a JSON object with the optional keys of `fields` that are present
Object(fields) ==
    [k \in {key \in DOMAIN fields : fields[key].present} |-> fields[k].value]

\* a key of a JSON object or a sheet of a workbook: absent, or one of `values`
Optional(values) ==
    {[present |-> FALSE, value |-> <<>>]}
        \cup {[present |-> TRUE, value |-> v] : v \in values}

\* the variables loop of _convert_gtm_export
convert_variables(variables) ==
    [i \in 1..Len(variables) |->
        [name |-> variables[i].name, type |-> variables[i].type,
         parameter |-> convert_parameters(variables[i].parameter)]]

\* FileParser._convert_gtm_export
convert_gtm_export(export_data) ==
    LET container_version == Get(export_data, "containerVersion", <<>>) IN
       [variables |-> convert_variables(Get(container_version, "variable", <<>>)),
        triggers |-> convert_triggers(Get(container_version, "trigger", <<>>)),
        tags |-> convert_tags(Get(container_version, "tag", <<>>),
                              Get(container_version, "trigger", <<>>))]

\* a parse_json that converts whatever it reads
parse_json_converts_always(json_data) == convert_gtm_export(json_data)

\* FileParser.parse_json on the object json.load returned
parse_json(json_data) ==
    IF "containerVersion" \in DOMAIN json_data
      THEN convert_gtm_export(json_data)
      ELSE json_data

\* an empty cell of a sheet, as pandas reads it
NaN == "NaN"

\* str(cell)
Str(cell) == IF cell = NaN THEN "nan" ELSE cell

\* the cell of a column that the sheet does not have
Absent == "<no column>"

\* str(row.get('type', default))
type_of(row, default) == IF row.type = Absent THEN default ELSE Str(row.type)

\* `if pd.isna(row.get('name')): continue`
RECURSIVE NamedRows(_)
NamedRows(rows) ==
    IF rows = <<>> THEN <<>>
    ELSE (IF Head(rows).name = NaN THEN <<>> ELSE <<Head(rows)>>)
         \o NamedRows(Tail(rows))

\* _parse_variables_sheet on a sheet with the columns name and type
parse_variables_sheet(rows) ==
    LET named == NamedRows(rows) IN
       [i \in 1..Len(named) |->
           [name |-> Str(named[i].name), type |-> type_of(named[i], "v"),
            parameter |-> <<>>]]

\* _parse_triggers_sheet on a sheet with the columns name and type
parse_triggers_sheet(rows) ==
    LET named == NamedRows(rows) IN
       [i \in 1..Len(named) |->
           [name |-> Str(named[i].name),
            type |-> type_of(named[i], "PAGEVIEW")]]

\* _parse_tags_sheet on a sheet with the columns name and type
parse_tags_sheet(rows) ==
    LET named == NamedRows(rows) IN
       [i \in 1..Len(named) |->
           [name |-> Str(named[i].name), type |-> type_of(named[i], "html"),
            parameter |-> <<>>,
            firingTriggerId |-> [present |-> FALSE, names |-> <<>>],
            blockingTriggerId |-> [present |-> FALSE, names |-> <<>>]]]

\* a parse_excel that sets a key only when the workbook has its sheet
parse_excel_sheets_found_only(sheets) ==
    Object([variables |->
               [present |-> "Variables" \in DOMAIN sheets,
                value |-> parse_variables_sheet(Get(sheets, "Variables", <<>>))],
            triggers |->
               [present |-> "Triggers" \in DOMAIN sheets,
                value |-> parse_triggers_sheet(Get(sheets, "Triggers", <<>>))],
            tags |->
               [present |-> "Tags" \in DOMAIN sheets,
                value |-> parse_tags_sheet(Get(sheets, "Tags", <<>>))]])

\* FileParser.parse_excel on the sheets of the workbook
parse_excel(sheets) ==
    [variables |-> IF "Variables" \in DOMAIN sheets
                     THEN parse_variables_sheet(sheets["Variables"]) ELSE <<>>,
     triggers |-> IF "Triggers" \in DOMAIN sheets
                    THEN parse_triggers_sheet(sheets["Triggers"]) ELSE <<>>,
     tags |-> IF "Tags" \in DOMAIN sheets
                THEN parse_tags_sheet(sheets["Tags"]) ELSE <<>>]

\* FileParser.parse_file: the extension selects the parser
parse_file(file) ==
    IF file.extension = ".json" THEN parse_json(file.content)
    ELSE parse_excel(file.content)

\* the lists of a canonical JSON file
JsonVariables ==
    SeqUpTo([name : {"V", "W"}, type : Types, parameter : {<<>>}], MaxEntries)

JsonTriggers == SeqUpTo([name : {"A"}, type : Types], 1)

JsonTags ==
    SeqUpTo({[name |-> "G", type |-> "t", parameter |-> <<>>,
              firingTriggerId |-> [present |-> TRUE, names |-> <<"A">>],
              blockingTriggerId |-> [present |-> FALSE, names |-> <<>>]]}, 1)

\* the lists of containerVersion in a GTM export
ContainerVariables ==
    SeqUpTo([name : {"V", "W"}, type : Types,
             parameter : {<<>>, <<[key |-> "k", type |-> "boolean",
                                   value |-> Missing]>>}], MaxEntries)

ContainerTriggers ==
    SeqUpTo({[triggerId |-> "12", name |-> "T1", type |-> "t"]}, 1)

ContainerTags ==
    SeqUpTo({[name |-> "G", type |-> "t", parameter |-> <<>>,
              firingTriggerId |-> [present |-> TRUE, names |-> <<id>>],
              blockingTriggerId |-> [present |-> FALSE, names |-> <<>>]] :
                 id \in {"12", "99"}}, 1)

ContainerVersions ==
    {Object([variable |-> v, trigger |-> t, tag |-> g]) :
        v \in Optional(ContainerVariables), t \in Optional(ContainerTriggers),
        g \in Optional(ContainerTags)}

\* JSON files: any of the three canonical keys, with or without containerVersion
JsonFiles ==
    {[extension |-> ".json",
      content |-> Object([variables |-> v, triggers |-> t, tags |-> g,
                          containerVersion |-> c])] :
        v \in Optional(JsonVariables), t \in Optional(JsonTriggers),
        g \in Optional(JsonTags), c \in Optional(ContainerVersions)}

\* workbooks: any of the three sheets, with rows whose cells may be empty
Workbooks ==
    {[extension |-> ".xlsx",
      content |-> Object([Variables |-> v, Triggers |-> t, Tags |-> g])] :
        v \in Optional(SeqUpTo([name : {"V", "W", NaN}, type : {"t", NaN}],
                               MaxEntries)),
        t \in Optional(SeqUpTo([name : {"A", NaN}, type : {"t"}], 1)),
        g \in Optional(SeqUpTo([name : {"G", NaN}, type : {"t"}], 1))}

\* an input file has been read
ParseInit ==
    /\ raw \in JsonFiles \cup Workbooks
    /\ returned = NoArgument
    /\ pc = "parse_file"
    /\ data = [variables |-> <<>>, triggers |-> <<>>, tags |-> <<>>]
    /\ stats = [variables_created |-> 0, triggers_created |-> 0,
                tags_created |-> 0, errors |-> <<>>, status |-> "FAILED"]
    /\ exit_code = -1
    /\ validation = [structural |-> "not_run", referential |-> "not_run",
                     invalid_refs |-> <<>>]
    /\ workspace_path = Missing
    /\ trigger_id_map = <<>>
    /\ idx = 0
    /\ pending = 0
    /\ remoteTriggers = 0
    /\ submitted = [variable |-> 0, trigger |-> 0, tag |-> 0]
    /\ lastCall = NoCall
    /\ remote_workspaces = 0
    /\ output = {}
    /\ response = NoResponse
    /\ export = NoExport
    /\ created_triggers = <<>>

\* data = FileParser.parse_file(args.input)
ParseFile ==
    /\ pc = "parse_file"
    /\ returned' = parse_file(raw)
    /\ pc' = "parsed"
    /\ UNCHANGED <<data, stats, exit_code, validation, workspace_path,
                   trigger_id_map, idx, pending, remoteTriggers, submitted,
                   lastCall, remote_workspaces, output, response, export,
                   created_triggers, raw>>

ParseSpec == ParseInit /\ [][ParseFile]_vars

(* --------------------------- rows without a type ----------------------- *)

\* a sheet with a type column, whose cells are text or empty, or without
Sheets(names, types, n) ==
    SeqUpTo([name : names \cup {NaN}, type : types \cup {NaN}], n)
        \cup SeqUpTo([name : names \cup {NaN}, type : {Absent}], n)

SheetWorkbooks ==
    {Object([Variables |-> v, Triggers |-> t, Tags |-> g]) :
        v \in Optional(Sheets({"V"}, {"jsm"}, 1)),
        t \in Optional(Sheets({"A", "B"}, {"CLICK"}, MaxEntries)),
        g \in Optional(Sheets({"G"}, {"ua"}, 1))}

\* a workbook has been opened
SheetInit ==
    /\ raw \in SheetWorkbooks
    /\ returned = NoArgument
    /\ pc = "parse_excel"
    /\ data = [variables |-> <<>>, triggers |-> <<>>, tags |-> <<>>]
    /\ stats = [variables_created |-> 0, triggers_created |-> 0,
                tags_created |-> 0, errors |-> <<>>, status |-> "FAILED"]
    /\ exit_code = -1
    /\ validation = [structural |-> "not_run", referential |-> "not_run",
                     invalid_refs |-> <<>>]
    /\ workspace_path = Missing
    /\ trigger_id_map = <<>>
    /\ idx = 0
    /\ pending = 0
    /\ remoteTriggers = 0
    /\ submitted = [variable |-> 0, trigger |-> 0, tag |-> 0]
    /\ lastCall = NoCall
    /\ remote_workspaces = 0
    /\ output = {}
    /\ response = NoResponse
    /\ export = NoExport
    /\ created_triggers = <<>>

\* FileParser.parse_excel(file_path)
ParseExcel ==
    /\ pc = "parse_excel"
    /\ returned' = parse_excel(raw)
    /\ pc' = "excel_parsed"
    /\ UNCHANGED <<data, stats, exit_code, validation, workspace_path,
                   trigger_id_map, idx, pending, remoteTriggers, submitted,
                   lastCall, remote_workspaces, output, response, export,
                   created_triggers, raw>>

SheetSpec == SheetInit /\ [][ParseExcel]_vars

(* ------------------- parameter_key and parameter_value ----------------- *)

\* text as a sequence of characters
KeyChars == {"a", "b", "|", " "}
ValueChars == {"1", "|", " "}

\* a cell of a row: text, empty (NaN), or in a column the sheet does not have
TextCells(chars) ==
    {[kind |-> "text", text |-> t] :
        t \in SeqUpTo(chars, MaxCell) \ {<<>>}}

EmptyCell == [kind |-> "nan", text |-> <<>>]
NoColumn == [kind |-> "absent", text |-> <<>>]

\* str(row.get(column, '')): the text, 'nan' for an empty cell, '' without
\* the column
StrOfCell(cell) ==
    IF cell.kind = "nan" THEN <<"n", "a", "n">> ELSE cell.text

\* text.split('|')
RECURSIVE split(_)
split(text) ==
    LET bars == {i \in 1..Len(text) : text[i] = "|"} IN
       IF bars = {} THEN <<text>>
       ELSE LET first == CHOOSE i \in bars : \A j \in bars : i <= j IN
               <<SubSeq(text, 1, first - 1)>>
                   \o split(SubSeq(text, first + 1, Len(text)))

RECURSIVE lstrip(_)
lstrip(text) ==
    IF text # <<>> /\ Head(text) = " " THEN lstrip(Tail(text)) ELSE text

RECURSIVE rstrip(_)
rstrip(text) ==
    IF text # <<>> /\ text[Len(text)] = " "
      THEN rstrip(SubSeq(text, 1, Len(text) - 1))
      ELSE text

\* text.strip()
strip(text) == rstrip(lstrip(text))

\* "Handle custom parameter fields" of _parse_variables_sheet and "Handle
\* custom parameters" of _parse_tags_sheet: the parameters appended for a row
custom_parameters(row) ==
    IF row.parameter_key.kind # "text" THEN <<>>
    ELSE LET param_keys == split(StrOfCell(row.parameter_key))
             param_values == split(StrOfCell(row.parameter_value))
         IN [i \in 1..Len(param_keys) |->
               [key |-> strip(param_keys[i]),
                type |-> "template",
                value |-> strip(IF i <= Len(param_values)
                                  THEN param_values[i] ELSE <<>>)]]

\* a row of the Variables or the Tags sheet has been read
RowInit ==
    /\ \E k \in TextCells(KeyChars) \cup {EmptyCell},
          v \in TextCells(ValueChars) \cup {EmptyCell, NoColumn} :
          raw = [parameter_key |-> k, parameter_value |-> v]
    /\ returned = NoArgument
    /\ pc = "row"
    /\ data = [variables |-> <<>>, triggers |-> <<>>, tags |-> <<>>]
    /\ stats = [variables_created |-> 0, triggers_created |-> 0,
                tags_created |-> 0, errors |-> <<>>, status |-> "FAILED"]
    /\ exit_code = -1
    /\ validation = [structural |-> "not_run", referential |-> "not_run",
                     invalid_refs |-> <<>>]
    /\ workspace_path = Missing
    /\ trigger_id_map = <<>>
    /\ idx = 0
    /\ pending = 0
    /\ remoteTriggers = 0
    /\ submitted = [variable |-> 0, trigger |-> 0, tag |-> 0]
    /\ lastCall = NoCall
    /\ remote_workspaces = 0
    /\ output = {}
    /\ response = NoResponse
    /\ export = NoExport
    /\ created_triggers = <<>>

\* one iteration of `for _, row in df.iterrows()`
ParseRow ==
    /\ pc = "row"
    /\ returned' = custom_parameters(raw)
    /\ pc' = "row_parsed"
    /\ UNCHANGED <<data, stats, exit_code, validation, workspace_path,
                   trigger_id_map, idx, pending, remoteTriggers, submitted,
                   lastCall, remote_workspaces, output, response, export,
                   created_triggers, raw>>

RowSpec == RowInit /\ [][ParseRow]_vars

(* ------------- resolve_account_and_container_by_container_id ----------- *)

AccountIds == {"a1", "a2"}

\* containers of an account as containers().list returns them
Containers == [containerId : {"1", "2"}, publicId : {"GTM-X"}]

\* an account of accounts().list: its accountId if it has one, whether the
\* listing of its containers succeeds, and the containers listed
Accounts ==
    [accountId : AccountIds \cup {Missing}, listed : {TRUE},
     container : SeqUpTo(Containers, MaxContainers)]
        \cup [accountId : AccountIds \cup {Missing}, listed : {FALSE},
              container : {<<>>}]

\* a comparison with the numeric containerId only
container_matches_numeric_id(container, target_container) ==
    target_container = container.containerId

\* `target_container == container_id or target_container == public_id`
container_matches(container, target_container) ==
    \/ target_container = container.containerId
    \/ target_container = container.publicId

\* the loop over the accounts and, in each, over its containers
RECURSIVE search_accounts(_, _)
search_accounts(accounts, target_container) ==
    IF accounts = <<>>
      THEN [outcome |-> "ValueError", account_id |-> Missing,
            container_id |-> Missing, text |-> ContainerNotFound]
    ELSE LET account == Head(accounts) IN
       IF account.accountId = Missing
         THEN search_accounts(Tail(accounts), target_container)
       ELSE IF ~account.listed
         THEN [outcome |-> "HttpError", account_id |-> Missing,
               container_id |-> Missing, text |-> "HttpError"]
       ELSE LET hits == {j \in 1..Len(account.container) :
                           container_matches(account.container[j],
                                             target_container)}
            IN IF hits # {}
                 THEN [outcome |-> "returned",
                       account_id |-> account.accountId,
                       container_id |->
                          account.container[CHOOSE j \in hits :
                              \A k \in hits : j <= k].containerId,
                       text |-> ""]
                 ELSE search_accounts(Tail(accounts), target_container)

\* resolve_account_and_container_by_container_id, once the credentials are
\* loaded: accounts().list() and the search
resolve_account_and_container_by_container_id(service, target_container) ==
    IF ~service.accounts_listed
      THEN [outcome |-> "HttpError", account_id |-> Missing,
            container_id |-> Missing, text |-> "HttpError"]
      ELSE search_accounts(service.account, target_container)

\* a container identifier and what the service account can see
ResolveInit ==
    /\ \E target \in {"1", "GTM-X"}, ok \in BOOLEAN,
          accounts \in SeqUpTo(Accounts, MaxAccounts) :
          raw = [target_container |-> target,
                 service |-> [accounts_listed |-> ok, account |-> accounts]]
    /\ returned = NoArgument
    /\ pc = "resolve_container"
    /\ data = [variables |-> <<>>, triggers |-> <<>>, tags |-> <<>>]
    /\ stats = [variables_created |-> 0, triggers_created |-> 0,
                tags_created |-> 0, errors |-> <<>>, status |-> "FAILED"]
    /\ exit_code = -1
    /\ validation = [structural |-> "not_run", referential |-> "not_run",
                     invalid_refs |-> <<>>]
    /\ workspace_path = Missing
    /\ trigger_id_map = <<>>
    /\ idx = 0
    /\ pending = 0
    /\ remoteTriggers = 0
    /\ submitted = [variable |-> 0, trigger |-> 0, tag |-> 0]
    /\ lastCall = NoCall
    /\ remote_workspaces = 0
    /\ output = {}
    /\ response = NoResponse
    /\ export = NoExport
    /\ created_triggers = <<>>

\* the call of main() when no account ID is given
Resolve ==
    /\ pc = "resolve_container"
    /\ returned' = resolve_account_and_container_by_container_id(
                       raw.service, raw.target_container)
    /\ pc' = "resolved"
    /\ UNCHANGED <<data, stats, exit_code, validation, workspace_path,
                   trigger_id_map, idx, pending, remoteTriggers, submitted,
                   lastCall, remote_workspaces, output, response, export,
                   created_triggers, raw>>

ResolveSpec == ResolveInit /\ [][Resolve]_vars

(* ----------------------------- --template-type ------------------------ *)

TemplateTypes == {"html", "ua"}

\* parsed documents whose entries are well formed and of either type
TypedVariables == [name : VarNames, type : TemplateTypes, parameter : {<<>>}]

TypedTriggers == [name : TrigNames, type : TemplateTypes]

TypedTags ==
    [name : {"G"}, type : TemplateTypes, parameter : {<<>>},
     firingTriggerId : {[present |-> FALSE, names |-> <<>>],
                        [present |-> TRUE, names |-> <<"A">>],
                        [present |-> TRUE, names |-> <<"B">>]},
     blockingTriggerId : {[present |-> FALSE, names |-> <<>>]}]

TypedDocuments ==
    [variables : SeqUpTo(TypedVariables, 1),
     triggers : SeqUpTo(TypedTriggers, MaxEntries),
     tags : SeqUpTo(TypedTags, 1)]

\* parse_file has returned; args.template_type is given or not
FilterInit ==
    /\ \E parsed \in TypedDocuments, T \in TemplateTypes \cup {Missing} :
          raw = [parsed |-> parsed, template_type |-> T]
    /\ data = raw.parsed
    /\ pc = "filter"
    /\ stats = [variables_created |-> 0, triggers_created |-> 0,
                tags_created |-> 0, errors |-> <<>>, status |-> "FAILED"]
    /\ exit_code = -1
    /\ validation = [structural |-> "not_run", referential |-> "not_run",
                     invalid_refs |-> <<>>]
    /\ workspace_path = Missing
    /\ trigger_id_map = <<>>
    /\ idx = 0
    /\ pending = 0
    /\ remoteTriggers = 0
    /\ submitted = [variable |-> 0, trigger |-> 0, tag |-> 0]
    /\ lastCall = NoCall
    /\ remote_workspaces = 0
    /\ output = {}
    /\ response = NoResponse
    /\ export = NoExport
    /\ created_triggers = <<>>
    /\ returned = NoArgument

\* `if args.template_type:` of main()
TemplateFilter ==
    /\ pc = "filter"
    /\ data' = IF raw.template_type = Missing THEN data
               ELSE FilterData(data, raw.template_type)
    /\ pc' = "validate"
    /\ UNCHANGED <<stats, exit_code, validation, workspace_path,
                   trigger_id_map, idx, pending, remoteTriggers, submitted,
                   lastCall, output, response, export, remote_workspaces,
                   created_triggers, raw, returned>>

\* main() from the template filter on
FilterNext ==
    \/ TemplateFilter
    \/ ValidateAll
    \/ DryRunCheck
    \/ ResolveContainer
    \/ Authenticate
    \/ ListWorkspaces
    \/ CreateWorkspace
    \/ ListTags
    \/ DeleteTag
    \/ ListTriggers
    \/ DeleteTrigger
    \/ ListVariables
    \/ DeleteVariable
    \/ CreateVariable
    \/ VariablesDone
    \/ CreateTrigger
    \/ TriggersDone
    \/ CreateTag
    \/ Finalize
    \/ Interrupt

FilterSpec == FilterInit /\ [][FilterNext]_vars

(* --------------------------- retry_on_failure -------------------------- *)

\* a loop that makes max_retries attempts
attempts_without_the_first(max_retries) == max_retries

\* range(max_retries + 1)
attempts(max_retries) == max_retries + 1

\* what one invocation of the wrapped function does: it returns, raises an
\* Exception, or raises a BaseException that `except Exception` lets through
Invocations == {"returns", "Exception", "BaseException"}

\* wrapper(*args, **kwargs) is called: current_delay = delay,
\* last_exception = None
RetryInit ==
    /\ \E n \in 0..MaxRetries, delay \in 1..2, backoff \in 1..2 :
          raw = [max_retries |-> n, delay |-> delay, backoff |-> backoff]
    /\ returned = [attempt |-> 0, calls |-> 0, failures |-> 0,
                   current_delay |-> raw.delay, slept |-> 0,
                   last_exception |-> 0, outcome |-> "none", value |-> 0]
    /\ pc = "retry"
    /\ data = [variables |-> <<>>, triggers |-> <<>>, tags |-> <<>>]
    /\ stats = [variables_created |-> 0, triggers_created |-> 0,
                tags_created |-> 0, errors |-> <<>>, status |-> "FAILED"]
    /\ exit_code = -1
    /\ validation = [structural |-> "not_run", referential |-> "not_run",
                     invalid_refs |-> <<>>]
    /\ workspace_path = Missing
    /\ trigger_id_map = <<>>
    /\ idx = 0
    /\ pending = 0
    /\ remoteTriggers = 0
    /\ submitted = [variable |-> 0, trigger |-> 0, tag |-> 0]
    /\ lastCall = NoCall
    /\ remote_workspaces = 0
    /\ output = {}
    /\ response = NoResponse
    /\ export = NoExport
    /\ created_triggers = <<>>

\* one iteration of `for attempt in range(max_retries + 1)`; invocation k
\* of the function returns the value k or raises the exception k
Attempt ==
    /\ pc = "retry"
    /\ returned.attempt < attempts(raw.max_retries)
    /\ \E does \in Invocations :
          LET k == returned.calls + 1 IN
             IF does = "returns"
               THEN /\ returned' = [returned EXCEPT !.calls = k,
                                       !.outcome = "returned", !.value = k]
                    /\ pc' = "retry_done"
             ELSE IF does = "BaseException"
               THEN /\ returned' = [returned EXCEPT !.calls = k,
                                       !.outcome = "propagated", !.value = k]
                    /\ pc' = "retry_done"
             ELSE /\ returned' =
                         IF returned.attempt < raw.max_retries
                           THEN [returned EXCEPT
                                   !.calls = k, !.failures = @ + 1,
                                   !.last_exception = k,
                                   !.slept = @ + returned.current_delay,
                                   !.current_delay = @ * raw.backoff,
                                   !.attempt = @ + 1]
                           ELSE [returned EXCEPT
                                   !.calls = k, !.failures = @ + 1,
                                   !.last_exception = k,
                                   !.attempt = @ + 1]
                  /\ UNCHANGED pc
    /\ UNCHANGED <<data, stats, exit_code, validation, workspace_path,
                   trigger_id_map, idx, pending, remoteTriggers, submitted,
                   lastCall, remote_workspaces, output, response, export,
                   created_triggers, raw>>

\* the loop is over: `raise last_exception`
RaiseLast ==
    /\ pc = "retry"
    /\ returned.attempt >= attempts(raw.max_retries)
    /\ returned' = [returned EXCEPT !.outcome = "raised",
                                    !.value = returned.last_exception]
    /\ pc' = "retry_done"
    /\ UNCHANGED <<data, stats, exit_code, validation, workspace_path,
                   trigger_id_map, idx, pending, remoteTriggers, submitted,
                   lastCall, remote_workspaces, output, response, export,
                   created_triggers, raw>>

RetryNext == Attempt \/ RaiseLast

RetrySpec == RetryInit /\ [][RetryNext]_vars

(* ------------------------ the methods of GTMClient --------------------- *)

WorkspaceNotInitialized == "Workspace not initialized"

\* a guard that lets every call through
always_initialized(path) == TRUE

\* the negation of `if not self.workspace_path:`
initialized(path) == path # Missing

NeedWorkspace ==
    {"clear_workspace", "create_variable", "create_trigger", "create_tag"}

\* GTMClient(...) has returned: workspace_id and workspace_path are None
ClientInit ==
    /\ raw = [workspace_id |-> Missing]
    /\ workspace_path = Missing
    /\ returned = [method |-> "__init__", outcome |-> "ok", text |-> "",
                   requests |-> 0]
    /\ pc = "client"
    /\ idx = 0
    /\ remote_workspaces \in 0..1
    /\ lastCall = NoCall
    /\ data = [variables |-> <<>>, triggers |-> <<>>, tags |-> <<>>]
    /\ stats = [variables_created |-> 0, triggers_created |-> 0,
                tags_created |-> 0, errors |-> <<>>, status |-> "FAILED"]
    /\ exit_code = -1
    /\ validation = [structural |-> "not_run", referential |-> "not_run",
                     invalid_refs |-> <<>>]
    /\ trigger_id_map = <<>>
    /\ pending = 0
    /\ remoteTriggers = 0
    /\ submitted = [variable |-> 0, trigger |-> 0, tag |-> 0]
    /\ output = {}
    /\ response = NoResponse
    /\ export = NoExport
    /\ created_triggers = <<>>

\* the first statement of the four methods: raise ValueError
RaiseNotInitialized(method) ==
    /\ returned' = [method |-> method, outcome |-> "ValueError",
                    text |-> WorkspaceNotInitialized, requests |-> 0]
    /\ UNCHANGED <<lastCall, submitted, workspace_path, raw,
                   remote_workspaces>>

\* create_variable, create_trigger, create_tag: one create request
ClientCreate(method, op, kind) ==
    /\ pc = "client"
    /\ idx < MaxCalls
    /\ idx' = idx + 1
    /\ IF ~initialized(workspace_path)
         THEN RaiseNotInitialized(method)
         ELSE /\ lastCall' = Call(op, "")
              /\ submitted' = Submit(kind)
              /\ \E ok \in BOOLEAN :
                    returned' = [method |-> method,
                                 outcome |-> IF ok THEN "ok" ELSE "HttpError",
                                 text |-> IF ok THEN "" ELSE "HttpError",
                                 requests |-> 1]
              /\ UNCHANGED <<workspace_path, raw, remote_workspaces>>
    /\ UNCHANGED <<data, pc, stats, exit_code, validation, trigger_id_map,
                   pending, remoteTriggers, output, response, export,
                   created_triggers>>

ClientCreateVariable ==
    ClientCreate("create_variable", "createVariable", "variable")
ClientCreateTrigger ==
    ClientCreate("create_trigger", "createTrigger", "trigger")
ClientCreateTag == ClientCreate("create_tag", "createTag", "tag")

\* clear_workspace: three listings, each followed by the deletions of what
\* it listed; no HttpError leaves the method
ClientClearWorkspace ==
    /\ pc = "client"
    /\ idx < MaxCalls
    /\ idx' = idx + 1
    /\ IF ~initialized(workspace_path)
         THEN RaiseNotInitialized("clear_workspace")
         ELSE /\ \E tags \in 0..MaxExisting, triggers \in 0..MaxExisting,
                    variables \in 0..MaxExisting :
                    /\ returned' = [method |-> "clear_workspace",
                                    outcome |-> "ok", text |-> "",
                                    requests |-> 3 + tags + triggers + variables]
                    /\ lastCall' = IF variables > 0
                                     THEN Call("deleteVariable", "")
                                     ELSE Call("listVariables", "")
              /\ UNCHANGED <<submitted, workspace_path, raw,
                             remote_workspaces>>
    /\ UNCHANGED <<data, pc, stats, exit_code, validation, trigger_id_map,
                   pending, remoteTriggers, output, response, export,
                   created_triggers>>

\* create_workspace: the created workspace's ID and path are kept
ClientCreateWorkspace ==
    /\ pc = "client"
    /\ idx < MaxCalls
    /\ idx' = idx + 1
    /\ lastCall' = Call("createWorkspace", "")
    /\ \E ok \in BOOLEAN :
          IF ok
            THEN /\ remote_workspaces' = remote_workspaces + 1
                 /\ raw' = [workspace_id |-> "2"]
                 /\ workspace_path' = "workspaces/2"
                 /\ returned' = [method |-> "create_workspace",
                                 outcome |-> "ok", text |-> "",
                                 requests |-> 1]
            ELSE /\ returned' = [method |-> "create_workspace",
                                 outcome |-> "HttpError",
                                 text |-> "HttpError", requests |-> 1]
                 /\ UNCHANGED <<remote_workspaces, raw, workspace_path>>
    /\ UNCHANGED <<data, pc, stats, exit_code, validation, trigger_id_map,
                   pending, remoteTriggers, submitted, output, response,
                   export, created_triggers>>

\* get_or_create_workspace: the workspace of the name if the listing shows
\* one, else create_workspace
ClientGetOrCreateWorkspace ==
    /\ pc = "client"
    /\ idx < MaxCalls
    /\ idx' = idx + 1
    /\ \E listed \in BOOLEAN, ok \in BOOLEAN :
          IF listed /\ remote_workspaces > 0
            THEN /\ lastCall' = Call("listWorkspaces", "")
                 /\ raw' = [workspace_id |-> "1"]
                 /\ workspace_path' = "workspaces/1"
                 /\ returned' = [method |-> "get_or_create_workspace",
                                 outcome |-> "ok", text |-> "",
                                 requests |-> 1]
                 /\ UNCHANGED remote_workspaces
            ELSE /\ lastCall' = Call("createWorkspace", "")
                 /\ IF ok
                      THEN /\ remote_workspaces' = remote_workspaces + 1
                           /\ raw' = [workspace_id |-> "2"]
                           /\ workspace_path' = "workspaces/2"
                           /\ returned' = [method |-> "get_or_create_workspace",
                                           outcome |-> "ok", text |-> "",
                                           requests |-> 2]
                      ELSE /\ returned' = [method |-> "get_or_create_workspace",
                                           outcome |-> "HttpError",
                                           text |-> "HttpError",
                                           requests |-> 2]
                           /\ UNCHANGED <<remote_workspaces, raw,
                                          workspace_path>>
    /\ UNCHANGED <<data, pc, stats, exit_code, validation, trigger_id_map,
                   pending, remoteTriggers, submitted, output, response,
                   export, created_triggers>>

ClientNext ==
    \/ ClientGetOrCreateWorkspace
    \/ ClientCreateWorkspace
    \/ ClientClearWorkspace
    \/ ClientCreateVariable
    \/ ClientCreateTrigger
    \/ ClientCreateTag

ClientSpec == ClientInit /\ [][ClientNext]_vars

(* ------------------- step 4: account and container -------------------- *)

\* `a or b` of Python on strings and None
Or(a, b) == IF a \notin {Missing, ""} THEN a ELSE b

\* a step 4 that resolves whenever the identifier is a public ID
resolution_needed_for_public_id(account_id, container_id) ==
    account_id = Missing \/ container_id = "GTM-X"

\* `if not account_id:`
resolution_needed(account_id, container_id) == account_id = Missing

\* self.parent of GTMClient
parent(account_id, container_id) ==
    "accounts/" \o account_id \o "/containers/" \o container_id

\* the command line, the environment and what the service account can see
IdentifierInit ==
    /\ \E args \in [account_id : {Missing, "a1"},
                     container_id : {Missing, "1", "GTM-X"}],
          config \in [GTM_ACCOUNT_ID : {"", "a2"},
                      GTM_CONTAINER_ID : {"", "2"}],
          ok \in BOOLEAN, accounts \in SeqUpTo(Accounts, 1) :
          raw = [args |-> args, config |-> config,
                 service |-> [accounts_listed |-> ok, account |-> accounts]]
    /\ returned = NoArgument
    /\ pc = "identifiers"
    /\ data = [variables |-> <<>>, triggers |-> <<>>, tags |-> <<>>]
    /\ stats = [variables_created |-> 0, triggers_created |-> 0,
                tags_created |-> 0, errors |-> <<>>, status |-> "FAILED"]
    /\ exit_code = -1
    /\ validation = [structural |-> "passed", referential |-> "passed",
                     invalid_refs |-> <<>>]
    /\ workspace_path = Missing
    /\ trigger_id_map = <<>>
    /\ idx = 0
    /\ pending = 0
    /\ remoteTriggers = 0
    /\ submitted = [variable |-> 0, trigger |-> 0, tag |-> 0]
    /\ lastCall = NoCall
    /\ remote_workspaces = 0
    /\ output = {}
    /\ response = NoResponse
    /\ export = NoExport
    /\ created_triggers = <<>>

\* step 4 of main(): the identifiers, the resolution if it is needed, and
\* GTMClient(...) with its authentication
ResolveIdentifiers ==
    /\ pc = "identifiers"
    /\ LET account_id ==
              Or(Or(raw.args.account_id, raw.config.GTM_ACCOUNT_ID), Missing)
           container_id ==
              Or(Or(raw.args.container_id, raw.config.GTM_CONTAINER_ID), Missing)
           resolved == resolve_account_and_container_by_container_id(
                          raw.service, container_id)
       IN IF container_id = Missing
            THEN /\ returned' = [resolution |-> FALSE, outcome |-> "ValueError",
                                 text |-> NoContainerId, parent |-> Missing]
                 /\ pc' = "aborted"
                 /\ UNCHANGED lastCall
          ELSE IF resolution_needed(account_id, container_id)
            THEN /\ lastCall' = Call("listAccounts", "")
                 /\ IF resolved.outcome = "returned"
                      THEN \E authenticated \in BOOLEAN :
                         /\ returned' =
                               [resolution |-> TRUE,
                                outcome |-> IF authenticated THEN "ok"
                                            ELSE "Exception",
                                text |-> IF authenticated THEN ""
                                         ELSE AuthenticationFailed,
                                parent |-> parent(resolved.account_id,
                                                  resolved.container_id)]
                         /\ pc' = IF authenticated THEN "list_workspaces"
                                  ELSE "aborted"
                      ELSE /\ returned' = [resolution |-> TRUE,
                                           outcome |-> resolved.outcome,
                                           text |-> resolved.text,
                                           parent |-> Missing]
                           /\ pc' = "aborted"
          ELSE \E authenticated \in BOOLEAN :
                 /\ returned' =
                       [resolution |-> FALSE,
                        outcome |-> IF authenticated THEN "ok" ELSE "Exception",
                        text |-> IF authenticated THEN ""
                                 ELSE AuthenticationFailed,
                        parent |-> parent(account_id, container_id)]
                 /\ pc' = IF authenticated THEN "list_workspaces" ELSE "aborted"
                 /\ UNCHANGED lastCall
    /\ UNCHANGED <<data, stats, exit_code, validation, workspace_path,
                   trigger_id_map, idx, pending, remoteTriggers, submitted,
                   remote_workspaces, output, response, export,
                   created_triggers, raw>>

\* list_workspaces: workspaces().list(parent=self.parent)
ListWorkspacesOfParent ==
    /\ pc = "list_workspaces"
    /\ lastCall' = Call("listWorkspaces", returned.parent)
    /\ pc' = "workspaces_listed"
    /\ UNCHANGED <<data, stats, exit_code, validation, workspace_path,
                   trigger_id_map, idx, pending, remoteTriggers, submitted,
                   remote_workspaces, output, response, export,
                   created_triggers, raw, returned>>

IdentifierNext == ResolveIdentifiers \/ ListWorkspacesOfParent

IdentifierSpec == IdentifierInit /\ [][IdentifierNext]_vars

(* ------------------------------- claims -------------------------------- *)

\* create requests sent so far
Attempted == submitted.variable + submitted.trigger + submitted.tag

\* the document as the claims describe it, without the validator's words
WellFormed(d) ==
    \A kind \in {"variables", "triggers", "tags"} :
       \A i \in 1..Len(d[kind]) :
          d[kind][i].name # Missing /\ d[kind][i].type # Missing

KnownTriggers(d) == {d.triggers[k].name : k \in 1..Len(d.triggers)}

AllRefsKnown(d) ==
    \A i \in 1..Len(d.tags) :
       /\ \A j \in 1..Len(d.tags[i].firingTriggerId.names) :
             d.tags[i].firingTriggerId.names[j] \in KnownTriggers(d)
       /\ \A j \in 1..Len(d.tags[i].blockingTriggerId.names) :
             d.tags[i].blockingTriggerId.names[j] \in KnownTriggers(d)

RECURSIVE IsSubSeq(_, _)
IsSubSeq(s, t) ==
    IF s = <<>> THEN TRUE
    ELSE IF t = <<>> THEN FALSE
    ELSE IF Head(s) = Head(t) THEN IsSubSeq(Tail(s), Tail(t))
    ELSE IsSubSeq(s, Tail(t))

\* C1: the create calls are ordered: every createVariable before every
\* createTrigger, every createTrigger before the first createTag, and within
\* a kind the k-th call is for the k-th entry of the document.
C1_CreateOrder ==
    /\ submitted.variable <= Len(data.variables)
    /\ submitted.trigger <= Len(data.triggers)
    /\ submitted.tag <= Len(data.tags)
    /\ submitted.trigger > 0 => submitted.variable = Len(data.variables)
    /\ submitted.tag > 0 =>
          /\ submitted.variable = Len(data.variables)
          /\ submitted.trigger = Len(data.triggers)
    /\ lastCall.op = "createVariable" =>
          /\ submitted.trigger = 0 /\ submitted.tag = 0
          /\ lastCall.name = data.variables[submitted.variable].name
    /\ lastCall.op = "createTrigger" =>
          /\ submitted.tag = 0
          /\ lastCall.name = data.triggers[submitted.trigger].name
    /\ lastCall.op = "createTag" =>
          lastCall.name = data.tags[submitted.tag].name

C1_Witness ==
    /\ lastCall.op = "createTag"
    /\ submitted = [variable |-> 1, trigger |-> 2, tag |-> 2]

\* the IDs of the names of a reference list that the map knows, in order
ExpectedIds(names, map) ==
    LET kept == SelectSeq(names, LAMBDA n : n \in DOMAIN map)
    IN [i \in 1..Len(kept) |-> map[kept[i]]]

\* C2: the reference lists sent with a tag are the remote IDs of the names
\* the map holds, in the tag's order and with its duplicates; a name the map
\* lacks is dropped, and no trigger name is sent in place of an ID.
C2_TagReferencesResolved ==
    lastCall.op = "createTag" =>
       LET tag == data.tags[submitted.tag] IN
          /\ lastCall.firingTriggerId.ids =
                ExpectedIds(tag.firingTriggerId.names, trigger_id_map)
          /\ lastCall.blockingTriggerId.ids =
                ExpectedIds(tag.blockingTriggerId.names, trigger_id_map)
          /\ \A i \in 1..Len(lastCall.firingTriggerId.ids) :
                lastCall.firingTriggerId.ids[i] \notin TrigNames
          /\ \A i \in 1..Len(lastCall.blockingTriggerId.ids) :
                lastCall.blockingTriggerId.ids[i] \notin TrigNames

\* a tag naming a created and a failed trigger: one ID is sent, one name dropped
C2_Witness ==
    /\ lastCall.op = "createTag"
    /\ Len(lastCall.firingTriggerId.ids) = 1
    /\ Len(data.tags[submitted.tag].firingTriggerId.names) = 2
    /\ \E i \in 1..2 :
          data.tags[submitted.tag].firingTriggerId.names[i]
              \notin DOMAIN trigger_id_map

\* C3: a document that fails validation, structurally or referentially,
\* aborts the run before any request goes to the remote service.
C3_InvalidDocumentNoRemoteCall ==
    /\ (pc \notin {"input", "validate"}
          /\ ~(WellFormed(data) /\ AllRefsKnown(data))) =>
          /\ lastCall = NoCall
          /\ Attempted = 0
          /\ remoteTriggers = 0
          /\ pc \in {"aborted", "interrupted"}
    /\ (validation.structural = "failed"
          \/ validation.referential = "failed") =>
          lastCall = NoCall /\ pc = "aborted"

C3_Witness ==
    /\ pc = "aborted"
    /\ validation.referential = "failed"
    /\ ~AllRefsKnown(data)
    /\ lastCall = NoCall

\* the messages of the entries 1..n of one kind, had every creation failed
FailureMsgs(kind, items, n) ==
    [i \in 1..n |->
        "Failed to create " \o kind \o " '" \o items[i].name \o "': HttpError"]

AllFailureMsgs ==
    FailureMsgs("variable", data.variables, submitted.variable)
        \o FailureMsgs("trigger", data.triggers, submitted.trigger)
        \o FailureMsgs("tag", data.tags, submitted.tag)

\* C4: every entry is submitted exactly once; a failed creation records
\* "Failed to create <kind> '<name>': <cause>" and the loop goes on; nothing
\* is retried or rolled back, and a failed creation never aborts the run.
C4_EachSubmittedOnce ==
    /\ pc = "finalized" =>
          /\ submitted.variable = Len(data.variables)
          /\ submitted.trigger = Len(data.triggers)
          /\ submitted.tag = Len(data.tags)
    /\ pc \in {"create_variables", "create_triggers", "create_tags"} =>
          /\ idx = 1 + (IF pc = "create_variables" THEN submitted.variable
                        ELSE IF pc = "create_triggers" THEN submitted.trigger
                        ELSE submitted.tag)
    /\ Attempted > 0 =>
          /\ pc # "aborted"
          /\ IsSubSeq(stats.errors, AllFailureMsgs)
          /\ Len(stats.errors) + total_created(stats) = Attempted
          /\ remoteTriggers = stats.triggers_created

\* a run that went on after a failed creation, to the end
C4_Witness ==
    /\ pc = "finalized"
    /\ Attempted = 3
    /\ Len(stats.errors) = 1
    /\ stats.tags_created = 1
    /\ stats.errors[1] = "Failed to create variable 'V': HttpError"

\* C5 as amended: at finalization the status is SUCCESS exactly when every
\* requested resource was created and no error was recorded (so also for a
\* document with no resources), PARTIAL_SUCCESS exactly when some but not all
\* were created, and FAILED exactly when resources were requested and none
\* was created; exactly one of the three holds.
C5_FinalStatus ==
    pc = "finalized" =>
       LET created == total_created(stats)
           requested == Len(data.variables) + Len(data.triggers) + Len(data.tags)
       IN /\ stats.status \in {"SUCCESS", "PARTIAL_SUCCESS", "FAILED"}
          /\ stats.status = "SUCCESS" <=>
                (created = requested /\ stats.errors = <<>>)
          /\ stats.status = "PARTIAL_SUCCESS" <=>
                (0 < created /\ created < requested)
          /\ stats.status = "FAILED" <=> (created = 0 /\ requested > 0)

\* a run over a document with no resources ends with SUCCESS
C5_Witness ==
    /\ pc = "finalized"
    /\ total_expected(data) = 0
    /\ stats.status = "SUCCESS"

\* C5 as stated: FAILED exactly when zero resources were created, for every
\* document, the empty one included.
C5_AsStated ==
    pc = "finalized" =>
       LET created == total_created(stats)
           requested == Len(data.variables) + Len(data.triggers) + Len(data.tags)
       IN /\ stats.status = "SUCCESS" <=>
                (created = requested /\ stats.errors = <<>>)
          /\ stats.status = "PARTIAL_SUCCESS" <=>
                (0 < created /\ created < requested)
          /\ stats.status = "FAILED" <=> created = 0

\* the error messages recorded for the resources of one kind
ErrorsOfKind(kind, names) ==
    Len(SelectSeq(stats.errors,
                  LAMBDA m : \E n \in names :
                     m = "Failed to create " \o kind \o " '" \o n
                           \o "': HttpError"))

C6_Counts ==
    Attempted > 0 =>
       /\ stats.variables_created + ErrorsOfKind("variable", VarNames)
             = submitted.variable
       /\ stats.triggers_created + ErrorsOfKind("trigger", TrigNames)
             = submitted.trigger
       /\ stats.tags_created + ErrorsOfKind("tag", TagNames) = submitted.tag
       /\ pc = "finalized" =>
             /\ total_created(stats) + Len(stats.errors) = total_expected(data)
             /\ stats.errors = <<>> =>
                   /\ stats.variables_created = Len(data.variables)
                   /\ stats.triggers_created = Len(data.triggers)
                   /\ stats.tags_created = Len(data.tags)
             /\ Len(stats.errors) = total_expected(data) =>
                   total_created(stats) = 0

C6_Monotone ==
    /\ stats'.variables_created >= stats.variables_created
    /\ stats'.triggers_created >= stats.triggers_created
    /\ stats'.tags_created >= stats.tags_created
    /\ Len(stats'.errors) >= Len(stats.errors)

\* C6: for each kind, created count + errors recorded for the kind = entries
\* of the kind attempted so far, and no count ever decreases; at finalization
\* total created + length(errors) = total requested.
C6_CountsAddUp == [](C6_Counts) /\ [][C6_Monotone]_vars

\* every creation of a run over three entries was rejected
C6_Witness ==
    /\ pc = "finalized"
    /\ total_expected(data) = 3
    /\ total_created(stats) = 0
    /\ Len(stats.errors) = 3
    /\ ErrorsOfKind("trigger", TrigNames) = 1

\* C7: on a structurally valid document the referential check succeeds if
\* and only if every name of every firingTriggerId and blockingTriggerId is
\* the name of a trigger of the document; otherwise it fails with an error.
C7_ReferentialIff ==
    validation.structural = "passed" =>
       /\ validation.referential = "passed" <=> AllRefsKnown(data)
       /\ validation.referential = "failed" <=> ~AllRefsKnown(data)
       /\ validation.referential = "failed" =>
             pc = "aborted" /\ Len(stats.errors) = 1

\* the only dangling reference is a blocking one
C7_Witness ==
    /\ validation.structural = "passed"
    /\ validation.referential = "failed"
    /\ \E i \in 1..Len(data.tags) :
          /\ data.tags[i].blockingTriggerId.names # <<>>
          /\ \A j \in 1..Len(data.tags[i].firingTriggerId.names) :
                data.tags[i].firingTriggerId.names[j] \in KnownTriggers(data)

DanglingOf(tag, kind, names, known) ==
    LET bad == SelectSeq(names, LAMBDA n : n \notin known)
    IN [j \in 1..Len(bad) |->
          [tag |-> tag.name, kind |-> kind, trigger |-> bad[j]]]

RECURSIVE DanglingUpTo(_, _)
DanglingUpTo(d, n) ==
    IF n = 0 THEN <<>>
    ELSE DanglingUpTo(d, n - 1)
         \o DanglingOf(d.tags[n], "firing", d.tags[n].firingTriggerId.names,
                       KnownTriggers(d))
         \o DanglingOf(d.tags[n], "blocking",
                       d.tags[n].blockingTriggerId.names, KnownTriggers(d))

\* C8: the one error of a failed referential check lists every dangling
\* occurrence of the document, tag by tag in document order, the firing
\* references of a tag before its blocking ones.
C8_AllDanglingListed ==
    validation.referential = "failed" =>
       /\ validation.invalid_refs = DanglingUpTo(data, Len(data.tags))
       /\ validation.invalid_refs # <<>>
       /\ stats.errors = <<RefErrorMsg(validation.invalid_refs)>>

\* a dangling blocking reference in one tag, a firing one in a later tag
C8_Witness ==
    /\ validation.referential = "failed"
    /\ Len(validation.invalid_refs) = 2
    /\ validation.invalid_refs[1].tag = "G"
    /\ validation.invalid_refs[1].kind = "blocking"
    /\ validation.invalid_refs[2].tag = "H"
    /\ validation.invalid_refs[2].kind = "firing"

\* C9: validate_all runs the structural check first and the referential one
\* only after it passed: an entry without name or type fails the run with
\* the structural error, dangling references or not.
C9_StructuralFirst ==
    /\ validation.referential # "not_run" =>
          validation.structural = "passed" /\ WellFormed(data)
    /\ (pc \notin {"input", "validate", "interrupted"}
          /\ stats.errors # <<"input error">> /\ ~WellFormed(data)) =>
          /\ validation.structural = "failed"
          /\ validation.referential = "not_run"
          /\ stats.errors = <<"'name' is a required property">>
          /\ pc = "aborted"

\* a document with an entry lacking a key and with a dangling reference
C9_Witness ==
    /\ validation.structural = "failed"
    /\ validation.referential = "not_run"
    /\ ~AllRefsKnown(data)

\* the place of a request in the order of workspace preparation and creation
Rank(op) ==
    IF op \in {"listTags", "deleteTag"} THEN 1
    ELSE IF op \in {"listTriggers", "deleteTrigger"} THEN 2
    ELSE IF op \in {"listVariables", "deleteVariable"} THEN 3
    ELSE IF op \in {"createVariable", "createTrigger", "createTag"} THEN 4
    ELSE 0

\* C10: the tags are deleted first, then the triggers, then the variables,
\* and every deletion precedes the first create call of the run.
C10_DeleteOrder == [][Rank(lastCall'.op) >= Rank(lastCall.op)]_vars

\* the last existing variable was deleted and the creation loops begin
C10_Witness ==
    /\ lastCall.op = "deleteVariable"
    /\ pc = "create_variables"
    /\ Len(data.variables) > 0

Deleting == {"delete_tags", "delete_triggers", "delete_variables"}

C12_WorkspaceIdempotent ==
    /\ remote_workspaces <= 1
    /\ (lastCall.op = "createWorkspace" /\ pc = "aborted") =>
          remote_workspaces = 0

\* C13: a dry run over a valid document ends in the dry-run state with exit
\* code 0, with no request sent to the remote service and nothing created.
C13_DryRun ==
    pc = "dry_run_done" =>
       /\ exit_code = 0
       /\ stats.status = "DRY_RUN_SUCCESS"
       /\ lastCall = NoCall
       /\ Attempted = 0
       /\ total_created(stats) = 0
       /\ stats.errors = <<>>
       /\ workspace_path = Missing
       /\ WellFormed(data) /\ AllRefsKnown(data)

C13_Witness ==
    /\ pc = "dry_run_done"
    /\ total_expected(data) = 3
    /\ Len(data.tags) = 1
    /\ data.tags[1].firingTriggerId.names # <<>>

\* the phase of the run-level state machine a position belongs to
Phase(at) ==
    IF at = "input" THEN 0
    ELSE IF at \in {"validate", "dry_run"} THEN 1
    ELSE IF at = "resolve" THEN 2
    ELSE IF at = "authenticate" THEN 3
    ELSE IF at \in {"list_workspaces", "create_workspace", "clear_tags",
                    "delete_tags", "clear_triggers", "delete_triggers",
                    "clear_variables", "delete_variables"} THEN 4
    ELSE IF at \in {"create_variables", "create_triggers", "create_tags"}
      THEN 5
    ELSE 6

C14_Step ==
    /\ pc \notin {"aborted", "dry_run_done", "finalized", "interrupted"}
    /\ Phase(pc') >= Phase(pc)
    /\ pc' = "dry_run_done" => Phase(pc) = 1
    /\ pc' = "finalized" => Phase(pc) = 5
    /\ pc' = "aborted" => Phase(pc) < 5

C14_Ends ==
    /\ pc = "dry_run_done" => stats.status = "DRY_RUN_SUCCESS"
    /\ pc = "finalized" =>
          stats.status \in {"SUCCESS", "PARTIAL_SUCCESS", "FAILED"}
    /\ pc = "interrupted" => stats.status = "INTERRUPTED"
    /\ pc = "aborted" => stats.status = "FAILED" /\ Attempted = 0
    /\ exit_code # -1 <=>
          pc \in {"aborted", "dry_run_done", "finalized", "interrupted"}

\* C14: a run goes through the phases in order and never back; it ends in
\* one of DRY_RUN_DONE, FINALIZED, INTERRUPTED and ABORTED, and nothing
\* changes once it has ended.
C14_PhaseOrder == [](C14_Ends) /\ [][C14_Step]_vars

\* a run that went through every phase to FINALIZED
C14_Witness ==
    /\ pc = "finalized"
    /\ stats.status = "PARTIAL_SUCCESS"
    /\ workspace_path = "workspaces/2"

PreparationErrors ==
    {NoContainerId, ContainerNotFound, "HttpError of accounts.list",
     "credentials error"}

\* C15: a missing container identifier, a failed resolution and a failed
\* authentication abort the run before the workspace is prepared: no
\* workspace, delete or create request, nothing created, status FAILED with
\* the cause in errors; without a container identifier no request at all.
C15_AbortBeforeWorkspace ==
    \A i \in 1..Len(stats.errors) :
       stats.errors[i] \in PreparationErrors =>
          /\ pc = "aborted"
          /\ stats.status = "FAILED"
          /\ Len(stats.errors) = 1
          /\ lastCall.op \in {"none", "listAccounts", "authenticate"}
          /\ stats.errors[i] = NoContainerId => lastCall = NoCall
          /\ Attempted = 0
          /\ total_created(stats) = 0
          /\ workspace_path = Missing

\* the client could not be constructed after the account was resolved
C15_Witness ==
    /\ pc = "aborted"
    /\ stats.errors = <<"credentials error">>
    /\ lastCall.op = "authenticate"
    /\ total_expected(data) > 0

\* C16: a fatal error ends the run at once with status FAILED and exit code
\* 1; its text becomes the last entry of errors, and the counts and the
\* errors recorded before it stay as they were.
C16_FatalError ==
    [][pc' = "aborted" =>
          /\ stats'.status = "FAILED"
          /\ exit_code' = 1
          /\ Len(stats'.errors) = Len(stats.errors) + 1
          /\ SubSeq(stats'.errors, 1, Len(stats.errors)) = stats.errors
          /\ stats'.variables_created = stats.variables_created
          /\ stats'.triggers_created = stats.triggers_created
          /\ stats'.tags_created = stats.tags_created
          /\ submitted' = submitted]_vars

\* the workspace could not be created
C16_Witness ==
    /\ pc = "aborted"
    /\ lastCall.op = "createWorkspace"
    /\ stats.errors = <<"HttpError">>
    /\ exit_code = 1

\* C17: an interrupt ends the run with status INTERRUPTED and exit code 130;
\* no request follows it, and counts and errors stay as they were, with no
\* error entry appended.
C17_Interrupted ==
    [][/\ pc # "interrupted"
       /\ pc' = "interrupted" =>
             /\ stats' = [stats EXCEPT !.status = "INTERRUPTED"]
             /\ exit_code' = 130
             /\ lastCall' = lastCall
             /\ submitted' = submitted
             /\ remoteTriggers' = remoteTriggers]_vars

\* interrupted between the first and the second trigger, after an error
C17_Witness ==
    /\ pc = "interrupted"
    /\ stats.status = "INTERRUPTED"
    /\ exit_code = 130
    /\ submitted.trigger = 1
    /\ Len(data.triggers) = 2
    /\ Len(stats.errors) = 1

\* the known error texts in the order upload() looks for them
ErrorPriority ==
    <<NoContainerId, ContainerNotFound, AuthenticationFailed,
      UnknownEntityType>>

ErrorCodes ==
    <<"MISSING_CONTAINER_ID", "CONTAINER_NOT_FOUND", "AUTH_FAILED",
      "UNKNOWN_TEMPLATE">>

FirstMatch(full_output) ==
    LET hits == {i \in 1..Len(ErrorPriority) : ErrorPriority[i] \in full_output}
    IN IF hits = {} THEN "UNKNOWN_ERROR"
       ELSE ErrorCodes[CHOOSE i \in hits : \A j \in hits : i <= j]

\* C18: the upload boundary answers SUCCESS or FAILED; errorCode is null
\* exactly when the exit code is 0, and otherwise the code of the first known
\* text, in the fixed order, that the output holds, UNKNOWN_ERROR if none.
C18_ErrorCode ==
    response # NoResponse =>
       /\ response.status \in {"SUCCESS", "FAILED"}
       /\ response.status = "SUCCESS" <=> exit_code = 0
       /\ response.errorCode = "null" <=> exit_code = 0
       /\ exit_code # 0 => response.errorCode = FirstMatch(output)

\* the output holds two known texts; the earlier one decides
C18_Witness ==
    /\ response.errorCode = "CONTAINER_NOT_FOUND"
    /\ AuthenticationFailed \in output
    /\ exit_code = 1

\* C19: whenever the credentials fail, at resolution or at client
\* construction, the output holds 'Authentication failed' and the boundary
\* answers AUTH_FAILED; a missing container identifier gives
\* MISSING_CONTAINER_ID and an unresolvable container CONTAINER_NOT_FOUND.
C19_Classified ==
    pc = "aborted" =>
       /\ "credentials error" \in {stats.errors[i] : i \in 1..Len(stats.errors)}
             => /\ AuthenticationFailed \in output
                /\ upload(exit_code, output).errorCode = "AUTH_FAILED"
       /\ NoContainerId \in {stats.errors[i] : i \in 1..Len(stats.errors)}
             => upload(exit_code, output).errorCode = "MISSING_CONTAINER_ID"
       /\ ContainerNotFound \in {stats.errors[i] : i \in 1..Len(stats.errors)}
             => upload(exit_code, output).errorCode = "CONTAINER_NOT_FOUND"

\* the triggers of an export that carry the ID tid
Carrying(tid, triggers) ==
    {k \in 1..Len(triggers) : triggers[k].triggerId = tid}

Converted(ids, names, triggers) ==
    /\ Len(names) = Len(ids)
    /\ \A i \in 1..Len(ids) :
          LET ks == Carrying(ids[i], triggers) IN
             IF ks = {} THEN names[i] = ids[i]
             ELSE names[i] =
                     triggers[CHOOSE k \in ks : \A j \in ks : j <= k].name

\* C20: export-form conversion rewrites firingTriggerId and blockingTriggerId
\* element by element, keeping length and order: an ID that a trigger of the
\* export carries becomes that trigger's name (the last such trigger's, when
\* several carry it), any other ID stays as it is, and nothing is raised.
C20_ExportConversion ==
    export.converted =>
       /\ Len(export.tags) = Len(export.tag)
       /\ \A t \in 1..Len(export.tag) :
             /\ export.tags[t].firingTriggerId.present
                   = export.tag[t].firingTriggerId.present
             /\ export.tags[t].blockingTriggerId.present
                   = export.tag[t].blockingTriggerId.present
             /\ Converted(export.tag[t].firingTriggerId.names,
                          export.tags[t].firingTriggerId.names, export.trigger)
             /\ Converted(export.tag[t].blockingTriggerId.names,
                          export.tags[t].blockingTriggerId.names,
                          export.trigger)

\* [12, 99] with the trigger {triggerId: 12, name: T1} becomes [T1, 99]
C20_Witness ==
    /\ export.converted
    /\ export.trigger = <<[triggerId |-> "12", name |-> "T1", type |-> "t"]>>
    /\ export.tag[1].firingTriggerId.names = <<"12", "99">>
    /\ export.tags[1].firingTriggerId.names = <<"T1", "99">>

\* an entry of the document that lacks a name or a type or holds an empty one
Nameless(d) ==
    \E kind \in {"variables", "triggers", "tags"} :
       \E i \in 1..Len(d[kind]) :
          d[kind][i].name \in {"", Missing} \/ d[kind][i].type \in {"", Missing}

\* C23: a document in which some entry has a missing or empty name or a
\* missing or empty type never passes validate_all.
C23_EmptyNameRejected ==
    Nameless(data) =>
       ~(validation.structural = "passed" /\ validation.referential = "passed")

\* a parameter entry that lacks key, type or value or holds a non-string there
Malformed(p) ==
    \E f \in {"key", "type", "value"} : p[f] \in {Missing, Number}

MalformedParameter(d) ==
    \E kind \in {"variables", "tags"} :
       \E i \in 1..Len(d[kind]) :
          \E j \in 1..Len(d[kind][i].parameter) :
             Malformed(d[kind][i].parameter[j])

\* C24: a document with a malformed entry in a parameter array of a variable
\* or of a tag fails the structural check and never reaches the creation
\* phase.
C24_MalformedParameterRejected ==
    MalformedParameter(data) =>
       /\ validation.structural # "passed"
       /\ Phase(pc) # 5
       /\ pc # "finalized"

Distinct(names) ==
    \A i, j \in 1..Len(names) : names[i] = names[j] => i = j

\* C26: in a document that reaches the creation phase no two triggers and no
\* two variables carry the same name.
C26_UniqueNames ==
    Phase(pc) = 5 =>
       /\ Distinct([i \in 1..Len(data.triggers) |-> data.triggers[i].name])
       /\ Distinct([i \in 1..Len(data.variables) |-> data.variables[i].name])

\* C27: the exit code is 0 exactly when the run finalized with SUCCESS or a
\* dry run passed validation, 130 exactly when it was interrupted and 1 in
\* every other case; the upload boundary answers SUCCESS exactly for exit
\* code 0, so that a PARTIAL_SUCCESS run is reported as FAILED.
C27_ExitCode ==
    /\ exit_code \in {-1, 0, 1, 130}
    /\ exit_code = -1 <=> pc \notin Terminal
    /\ exit_code = 0 <=>
          \/ pc = "finalized" /\ stats.status = "SUCCESS"
          \/ pc = "dry_run_done" /\ stats.status = "DRY_RUN_SUCCESS"
    /\ exit_code = 130 <=> pc = "interrupted" /\ stats.status = "INTERRUPTED"
    /\ exit_code = 1 <=>
          \/ pc = "finalized" /\ stats.status \in {"PARTIAL_SUCCESS", "FAILED"}
          \/ pc = "aborted" /\ stats.status = "FAILED"
    /\ pc \in Terminal =>
          /\ upload(exit_code, output).status = "SUCCESS" <=> exit_code = 0
          /\ upload(exit_code, output).status = "FAILED" <=> exit_code # 0
          /\ stats.status = "PARTIAL_SUCCESS" =>
                upload(exit_code, output).status = "FAILED"

\* one variable was created, the other was not
C27_Witness ==
    /\ pc = "finalized"
    /\ stats.status = "PARTIAL_SUCCESS"
    /\ exit_code = 1
    /\ stats.variables_created = 1
    /\ Len(stats.errors) = 1
    /\ upload(exit_code, output).status = "FAILED"

\* the names of the triggers whose creation has failed so far
FailedTriggers ==
    {n \in TrigNames : \E i \in 1..Len(stats.errors) :
         stats.errors[i] = CreateErrorMsg("trigger", n, "HttpError")}

\* what the successful createTrigger calls of this run have returned
Returned == {created_triggers[i] : i \in 1..Len(created_triggers)}

C29_Map ==
    /\ Len(created_triggers) = stats.triggers_created
    /\ Len(created_triggers) = remoteTriggers
    /\ Len(created_triggers) + Cardinality({i \in 1..Len(stats.errors) :
          \E n \in TrigNames :
             stats.errors[i] = CreateErrorMsg("trigger", n, "HttpError")})
          = submitted.trigger
    /\ \A i \in 1..Len(created_triggers) :
          /\ created_triggers[i].triggerId = RemoteTriggerIds[i]
          /\ \E k \in 1..submitted.trigger :
                data.triggers[k].name = created_triggers[i].name
    /\ DOMAIN trigger_id_map = {t.name : t \in Returned}
    /\ \A n \in DOMAIN trigger_id_map :
          [name |-> n, triggerId |-> trigger_id_map[n]] \in Returned
    /\ \A n \in FailedTriggers :
          n \in DOMAIN trigger_id_map => \E t \in Returned : t.name = n
    /\ lastCall.op = "createTag" =>
          \A f \in {"firingTriggerId", "blockingTriggerId"} :
             \A j \in 1..Len(lastCall[f].ids) :
                \E t \in Returned : t.triggerId = lastCall[f].ids[j]

\* a failed createTrigger leaves the map as it was
C29_FailureLeavesMap ==
    Len(stats'.errors) > Len(stats.errors) => trigger_id_map' = trigger_id_map

UnmatchedIds(ex) ==
    {id \in ExportIds :
        /\ \E t \in 1..Len(ex.tag) :
              \E f \in {"firingTriggerId", "blockingTriggerId"} :
                 \E j \in 1..Len(ex.tag[t][f].names) : ex.tag[t][f].names[j] = id
        /\ \A k \in 1..Len(ex.trigger) : ex.trigger[k].triggerId # id}

\* C30: when a tag of an export refers to a trigger ID that no trigger of the
\* export has, validation of the converted document fails on the referential
\* check, so the run aborts before any remote call.
C30_UnmatchedIdCaught ==
    (UnmatchedIds(export) # {} /\ validation.structural # "not_run") =>
       /\ validation.referential = "failed"
       /\ pc = "aborted"
       /\ lastCall = NoCall

\* C21: parse_json is idempotent on every JSON input, canonical or export:
\* parsing what it returned gives the same document again, and an input
\* without the containerVersion key is returned unchanged.
C21_NormalizeIdempotent ==
    (pc = "parsed" /\ raw.extension = ".json") =>
       /\ parse_json(returned) = returned
       /\ "containerVersion" \notin DOMAIN raw.content =>
             returned = raw.content

\* an export was converted: the document returned differs from the input
C21_Witness ==
    /\ pc = "parsed"
    /\ raw.extension = ".json"
    /\ "containerVersion" \in DOMAIN raw.content
    /\ "variables" \notin DOMAIN raw.content
    /\ Len(returned.tags) = 1
    /\ returned.tags[1].firingTriggerId.names = <<"T1">>
    /\ Len(returned.variables) = 2

\* the three input forms the normalizer accepts
Accepted(file) ==
    \/ file.extension = ".xlsx"
    \/ "containerVersion" \in DOMAIN file.content
    \/ {"variables", "triggers", "tags"} \subseteq DOMAIN file.content

NamesOf(list) == [i \in 1..Len(list) |-> list[i].name]

\* the names of the entries of one kind in the order the input has them
InputNames(file, kind) ==
    LET key == IF file.extension = ".xlsx"
                 THEN (IF kind = "variables" THEN "Variables"
                       ELSE IF kind = "triggers" THEN "Triggers" ELSE "Tags")
               ELSE (IF kind = "variables" THEN "variable"
                     ELSE IF kind = "triggers" THEN "trigger" ELSE "tag")
    IN IF file.extension = ".xlsx"
         THEN (IF key \in DOMAIN file.content
                 THEN NamesOf(SelectSeq(file.content[key],
                                        LAMBDA row : row.name # NaN))
                 ELSE <<>>)
       ELSE IF "containerVersion" \in DOMAIN file.content
         THEN (IF key \in DOMAIN file.content["containerVersion"]
                 THEN NamesOf(file.content["containerVersion"][key])
                 ELSE <<>>)
       ELSE NamesOf(file.content[kind])

\* C22: after normalization of a canonical JSON file, an export or a workbook
\* with any of the three sheets, the document holds variables, triggers and
\* tags, each a sequence, possibly empty, with the entries in input order.
C22_ThreeSequences ==
    (pc = "parsed" /\ Accepted(raw)) =>
       \A kind \in {"variables", "triggers", "tags"} :
          /\ kind \in DOMAIN returned
          /\ DOMAIN returned[kind] = 1..Len(returned[kind])
          /\ NamesOf(returned[kind]) = InputNames(raw, kind)

\* a workbook with the Variables sheet only: W, an unnamed row skipped, no
\* triggers and no tags
C22_Witness ==
    /\ pc = "parsed"
    /\ raw.extension = ".xlsx"
    /\ DOMAIN raw.content = {"Variables"}
    /\ NamesOf(raw.content["Variables"]) = <<"W", NaN>>
    /\ NamesOf(returned.variables) = <<"W">>
    /\ returned.triggers = <<>>
    /\ returned.tags = <<>>

\* what the author of a sheet wrote in a cell
Written(cell) == IF cell.kind = "text" THEN cell.text ELSE <<>>

Bars(text) == {i \in 1..Len(text) : text[i] = "|"}

\* the position of the k-th '|' of a text; 0 before the first piece and
\* Len + 1 after the last one
Bar(text, k) ==
    IF k = 0 THEN 0
    ELSE IF k > Cardinality(Bars(text)) THEN Len(text) + 1
    ELSE CHOOSE p \in Bars(text) :
            Cardinality({q \in Bars(text) : q <= p}) = k

\* the k-th of the pieces the '|' cut a text into
Piece(text, k) == SubSeq(text, Bar(text, k - 1) + 1, Bar(text, k) - 1)

Trimmed(text) ==
    LET inked == {i \in 1..Len(text) : text[i] # " "} IN
       IF inked = {} THEN <<>>
       ELSE SubSeq(text, CHOOSE i \in inked : \A j \in inked : i <= j,
                         CHOOSE i \in inked : \A j \in inked : j <= i)

\* C25: a row with a parameter_key cell gives one parameter per key, in key
\* order, the i-th key with the i-th value, both trimmed; where the value
\* cell has no i-th piece the value is the empty string, and values beyond
\* the last key are ignored.
C25_ParameterSplitting ==
    (pc = "row_parsed" /\ raw.parameter_key.kind = "text") =>
       LET keys == raw.parameter_key.text
           values == Written(raw.parameter_value)
       IN /\ Len(returned) = Cardinality(Bars(keys)) + 1
          /\ \A i \in 1..Len(returned) :
                /\ returned[i].key = Trimmed(Piece(keys, i))
                /\ returned[i].value =
                      IF i <= Cardinality(Bars(values)) + 1
                        THEN Trimmed(Piece(values, i))
                        ELSE <<>>

\* container j of account i is accessible and carries the identifier
Hit(i, j) ==
    LET account == raw.service.account[i] IN
       /\ account.accountId # Missing
       /\ account.listed
       /\ j \in 1..Len(account.container)
       /\ raw.target_container \in {account.container[j].containerId,
                                    account.container[j].publicId}

Hits ==
    {p \in (1..MaxAccounts + 1) \X (1..MaxContainers + 1) :
        p[1] <= Len(raw.service.account) /\ Hit(p[1], p[2])}

\* account-then-container listing order
Earlier(p, q) == p[1] < q[1] \/ (p[1] = q[1] /\ p[2] < q[2])

FirstHit == CHOOSE p \in Hits : \A q \in Hits : ~Earlier(q, p)

\* the accounts whose containers could not be listed
Unlisted ==
    {i \in 1..Len(raw.service.account) :
        /\ raw.service.account[i].accountId # Missing
        /\ ~raw.service.account[i].listed}

ReturnsFirstHit ==
    /\ returned.outcome = "returned"
    /\ returned.account_id = raw.service.account[FirstHit[1]].accountId
    /\ returned.container_id =
          raw.service.account[FirstHit[1]].container[FirstHit[2]].containerId

\* C28: when every listing request the search makes succeeds, the resolver
\* returns the account and the numeric ID of the first container, in
\* account-then-container order, whose numeric or public ID is the
\* identifier, and fails with the not-found error exactly when no listed
\* container matches; a listing request that fails before a match is found
\* ends the search with that request's error instead.
C28_Resolve ==
    pc = "resolved" =>
       LET failed ==
              \/ ~raw.service.accounts_listed
              \/ \E i \in Unlisted : \A p \in Hits : i < p[1]
       IN /\ returned.outcome = "HttpError" <=> failed
          /\ returned.outcome = "ValueError" <=> (~failed /\ Hits = {})
          /\ returned.outcome = "ValueError" => returned.text = ContainerNotFound
          /\ (~failed /\ Hits # {}) => ReturnsFirstHit
          /\ returned.outcome = "returned" =>
                \E i \in 1..Len(raw.service.account) :
                   \E j \in 1..Len(raw.service.account[i].container) :
                      /\ raw.service.account[i].accountId = returned.account_id
                      /\ raw.service.account[i].container[j].containerId
                            = returned.container_id
                      /\ Hit(i, j)

\* the first account has no such container; the second has it second, by
\* its public ID
C28_Witness ==
    /\ pc = "resolved"
    /\ raw.target_container = "GTM-X"
    /\ Len(raw.service.account) = 2
    /\ raw.service.account[1].accountId = "a1"
    /\ raw.service.account[1].container = <<>>
    /\ raw.service.account[2].accountId = "a2"
    /\ Len(raw.service.account[2].container) = 2
    /\ returned.outcome = "returned"
    /\ returned.account_id = "a2"
    /\ returned.container_id = raw.service.account[2].container[1].containerId

\* C28 as stated: the first matching container is returned, and the
\* not-found error is raised if and only if no accessible container matches.
C28_AsStated ==
    pc = "resolved" =>
       /\ Hits # {} => ReturnsFirstHit
       /\ returned.outcome = "ValueError" <=> Hits = {}

\* the entries of a list whose type is T, in the order of the list
OfType(list, T) ==
    LET IsT(e) == e.type = T IN SelectSeq(list, IsT)

\* a tag of type T fires on a name that only triggers of another type carry
CrossTypeReference(d, T) ==
    \E i \in 1..Len(d.tags) :
       /\ d.tags[i].type = T
       /\ \E j \in 1..Len(d.tags[i].firingTriggerId.names) :
             LET name == d.tags[i].firingTriggerId.names[j] IN
                /\ \E k \in 1..Len(d.triggers) : d.triggers[k].name = name
                /\ \A k \in 1..Len(d.triggers) :
                      d.triggers[k].name = name => d.triggers[k].type # T

\* C31: with a template type T, validation and creation work on the
\* document filtered to the entries of type T, order preserved; a tag of
\* type T that references a trigger of another type is then rejected as a
\* dangling reference and nothing is created.
C31_TemplateFilter ==
    raw.template_type # Missing =>
       LET T == raw.template_type
           filtered == [variables |-> OfType(raw.parsed.variables, T),
                        triggers |-> OfType(raw.parsed.triggers, T),
                        tags |-> OfType(raw.parsed.tags, T)]
       IN /\ (pc = "validate" \/ validation.structural # "not_run") =>
                data = filtered
          /\ submitted.variable <= Len(filtered.variables)
          /\ submitted.trigger <= Len(filtered.triggers)
          /\ submitted.tag <= Len(filtered.tags)
          /\ CrossTypeReference(raw.parsed, T) =>
                /\ Attempted = 0
                /\ lastCall = NoCall
                /\ total_created(stats) = 0
                /\ pc \in {"filter", "validate", "aborted", "interrupted"}
                /\ pc = "aborted" =>
                      /\ validation.referential = "failed"
                      /\ validation.invalid_refs # <<>>
                      /\ exit_code = 1

\* the unfiltered document is valid; its html tag fires on trigger A, which
\* is of type ua, and html is the template type
C31_Witness ==
    /\ pc = "aborted"
    /\ raw.template_type = "html"
    /\ validate_input_data(raw.parsed)
    /\ validate_trigger_references(raw.parsed)
    /\ Len(raw.parsed.tags) = 1
    /\ raw.parsed.tags[1].type = "html"
    /\ raw.parsed.tags[1].firingTriggerId.names = <<"A">>
    /\ Len(raw.parsed.triggers) = 2
    /\ raw.parsed.triggers[1] = [name |-> "A", type |-> "ua"]
    /\ raw.parsed.triggers[2] = [name |-> "B", type |-> "html"]
    /\ data.triggers = <<[name |-> "B", type |-> "html"]>>
    /\ validation.referential = "failed"
    /\ Attempted = 0

\* what create_tag sends for one key of the tag when the map holds none of
\* the key's names
SentWithoutIds(field, sent) ==
    IF DOMAIN trigger_id_map = {} THEN ~sent.present /\ sent.ids = <<>>
    ELSE sent.present = field.present /\ sent.ids = <<>>

NoneMapped(field) ==
    \A i \in 1..Len(field.names) : field.names[i] \notin DOMAIN trigger_id_map

C32_Body ==
    lastCall.op = "createTag" =>
       LET tag == data.tags[submitted.tag] IN
          /\ lastCall.name = tag.name
          /\ NoneMapped(tag.firingTriggerId) =>
                SentWithoutIds(tag.firingTriggerId, lastCall.firingTriggerId)
          /\ NoneMapped(tag.blockingTriggerId) =>
                SentWithoutIds(tag.blockingTriggerId, lastCall.blockingTriggerId)

C32_Submitted ==
    (pc = "create_tags" /\ idx <= Len(data.tags) /\ pc' = "create_tags") =>
       /\ submitted' = [submitted EXCEPT !.tag = @ + 1]
       /\ lastCall'.op = "createTag"
       /\ \/ /\ stats'.tags_created = stats.tags_created + 1
             /\ stats'.errors = stats.errors
          \/ /\ stats'.tags_created = stats.tags_created
             /\ Len(stats'.errors) = Len(stats.errors) + 1

\* C32: with an empty TriggerIdMap the tag body holds neither
\* firingTriggerId nor blockingTriggerId; with a non-empty map that holds
\* none of the tag's names the keys the tag holds are sent as empty lists;
\* either way the tag is submitted, and counted as created when accepted.
C32_EmptyReferences == [](C32_Body) /\ [][C32_Submitted]_vars

\* trigger A failed and B was created; the tag firing on A was sent with
\* empty lists and accepted
C32_Witness ==
    /\ lastCall.op = "createTag"
    /\ DOMAIN trigger_id_map = {"B"}
    /\ data.tags[submitted.tag].firingTriggerId = [present |-> TRUE, names |-> <<"A">>]
    /\ data.tags[submitted.tag].blockingTriggerId = [present |-> TRUE, names |-> <<>>]
    /\ lastCall.firingTriggerId = [present |-> TRUE, ids |-> <<>>]
    /\ lastCall.blockingTriggerId = [present |-> TRUE, ids |-> <<>>]
    /\ stats.tags_created = 1

\* the created triggers of name n, by position in created_triggers
CreatedAs(n) ==
    {k \in 1..Len(created_triggers) : created_triggers[k].name = n}

\* the ID returned by the latest successful creation of a trigger named n
LatestId(n) ==
    created_triggers[CHOOSE k \in CreatedAs(n) :
                        \A j \in CreatedAs(n) : j <= k].triggerId

\* the IDs that a later trigger of the same name has superseded
Superseded ==
    {created_triggers[k].triggerId : k \in
        {i \in 1..Len(created_triggers) :
            \E j \in CreatedAs(created_triggers[i].name) : j > i}}

\* C33: TriggerIdMap holds one ID per name, that of the latest trigger of
\* the name that was created: of two created triggers of one name the later
\* one's, which is the only one sent with a tag referencing the name; and
\* the created one's when the other trigger of the name failed.
C33_LatestIdPerName ==
    /\ \A n \in DOMAIN trigger_id_map :
          CreatedAs(n) # {} /\ trigger_id_map[n] = LatestId(n)
    /\ trigger_id_map = create_trigger_id_map(created_triggers)
    /\ lastCall.op = "createTag" =>
          LET tag == data.tags[submitted.tag] IN
             \A f \in {"firingTriggerId", "blockingTriggerId"} :
                /\ \A j \in 1..Len(lastCall[f].ids) :
                      /\ lastCall[f].ids[j] \notin Superseded
                      /\ \E i \in 1..Len(tag[f].names) :
                            /\ CreatedAs(tag[f].names[i]) # {}
                            /\ lastCall[f].ids[j] = LatestId(tag[f].names[i])
                /\ \A i \in 1..Len(tag[f].names) :
                      CreatedAs(tag[f].names[i]) # {} =>
                         \E j \in 1..Len(lastCall[f].ids) :
                            lastCall[f].ids[j] = LatestId(tag[f].names[i])

\* two triggers named A, both created: the tag firing on A is sent 102 only
C33_Witness ==
    /\ lastCall.op = "createTag"
    /\ Len(data.triggers) = 2
    /\ data.triggers[1].name = "A"
    /\ data.triggers[2].name = "A"
    /\ created_triggers = <<[name |-> "A", triggerId |-> "101"],
                            [name |-> "A", triggerId |-> "102"]>>
    /\ trigger_id_map["A"] = "102"
    /\ data.tags[submitted.tag].firingTriggerId.names = <<"A">>
    /\ lastCall.firingTriggerId.ids = <<"102">>

\* from validation on no step changes the document
C34_Frame == pc # "input" => data' = data

\* the reference lists of the tags of a validated document hold trigger
\* names of the document, whatever was sent to the remote service
C34_Names ==
    validation.referential = "passed" =>
       \A i \in 1..Len(data.tags) :
          \A f \in {"firingTriggerId", "blockingTriggerId"} :
             \A j \in 1..Len(data.tags[i][f].names) :
                \E k \in 1..Len(data.triggers) :
                   data.triggers[k].name = data.tags[i][f].names[j]

\* C34: the document is read-only once it is normalized and filtered:
\* validation, clearing and the three creation loops leave it as it is, and
\* the reference lists of its tags still hold trigger names at the end.
C34_DocumentReadOnly == [](C34_Names) /\ [][C34_Frame]_vars

\* the tag was sent with the ID 101; the document still says A
C34_Witness ==
    /\ pc = "finalized"
    /\ Len(data.tags) = 1
    /\ data.tags[1].firingTriggerId.names = <<"A">>
    /\ lastCall.op = "createTag"
    /\ lastCall.firingTriggerId.ids = <<"101">>
    /\ stats.tags_created = 1

C35_State ==
    pc \in {"retry", "retry_done"} =>
       LET n == raw.max_retries IN
          /\ returned.calls <= n + 1
          /\ returned.outcome = "none" =>
                returned.failures = returned.calls
          /\ returned.outcome = "returned" =>
                /\ returned.value = returned.calls
                /\ returned.failures = returned.calls - 1
          /\ returned.outcome = "raised" =>
                /\ returned.calls = n + 1
                /\ returned.failures = n + 1
                /\ returned.value = n + 1
          /\ (pc = "retry" /\ returned.failures = returned.calls
                /\ returned.calls < n + 1) => ENABLED Attempt

\* once the wrapper has returned or raised, the function is not invoked again
C35_Step ==
    /\ returned.outcome # "none" => returned' = returned
    /\ returned'.calls <= returned.calls + 1
    /\ returned'.outcome = "raised" => returned'.calls = returned.calls

\* C35: a function wrapped with max_retries = n is invoked at most n + 1
\* times per call; the first successful invocation ends the call with its
\* result, a failure is followed by another attempt while fewer than n + 1
\* were made, and the last attempt's exception is raised only after n + 1
\* failures in a row.
C35_RetryBound == [](C35_State) /\ [][pc = "retry" => C35_Step]_vars

\* max_retries = 2: two failures, then the third invocation returns
C35_Witness ==
    /\ pc = "retry_done"
    /\ raw.max_retries = 2
    /\ returned.outcome = "returned"
    /\ returned.calls = 3
    /\ returned.failures = 2
    /\ returned.value = 3

\* a call of one of the four methods on a client without a workspace
C36_Uninitialized ==
    (idx' = idx + 1 /\ workspace_path = Missing
       /\ returned'.method \in NeedWorkspace) =>
          /\ returned'.outcome = "ValueError"
          /\ returned'.text = WorkspaceNotInitialized
          /\ returned'.requests = 0
          /\ lastCall' = lastCall
          /\ submitted' = submitted
          /\ remote_workspaces' = remote_workspaces
          /\ workspace_path' = workspace_path
          /\ raw' = raw

\* a call of get_or_create_workspace or create_workspace that succeeds
\* leaves the client with a workspace, and a call of one of the four methods
\* on such a client does not fail for the lack of one
C36_Initialized ==
    /\ (idx' = idx + 1 /\ returned'.outcome = "ok"
          /\ returned'.method \in {"get_or_create_workspace",
                                   "create_workspace"}) =>
             workspace_path' # Missing /\ raw'.workspace_id # Missing
    /\ workspace_path # Missing => workspace_path' # Missing
    /\ (idx' = idx + 1 /\ workspace_path # Missing
          /\ returned'.method \in NeedWorkspace) =>
             /\ returned'.text # WorkspaceNotInitialized
             /\ returned'.requests > 0

\* C36: on a client without a workspace, clear_workspace, create_variable,
\* create_trigger and create_tag fail with 'Workspace not initialized',
\* send no request and change nothing; once get_or_create_workspace or
\* create_workspace has succeeded they no longer fail for that reason.
C36_WorkspaceGuard == [][C36_Uninitialized /\ C36_Initialized]_vars

\* create_workspace failed, so the client has no workspace; clear_workspace
\* was then refused without a request
C36_Witness ==
    /\ pc = "client"
    /\ idx = 2
    /\ workspace_path = Missing
    /\ raw.workspace_id = Missing
    /\ returned = [method |-> "clear_workspace", outcome |-> "ValueError",
                   text |-> WorkspaceNotInitialized, requests |-> 0]
    /\ lastCall.op = "createWorkspace"
    /\ submitted = [variable |-> 0, trigger |-> 0, tag |-> 0]

\* the account ID of the command line or, failing that, of the environment
SuppliedAccount ==
    IF raw.args.account_id # Missing THEN raw.args.account_id
    ELSE IF raw.config.GTM_ACCOUNT_ID # "" THEN raw.config.GTM_ACCOUNT_ID
    ELSE Missing

\* the container identifier, likewise
SuppliedContainer ==
    IF raw.args.container_id # Missing THEN raw.args.container_id
    ELSE IF raw.config.GTM_CONTAINER_ID # "" THEN raw.config.GTM_CONTAINER_ID
    ELSE Missing

\* the identifier is the numeric ID of a container of the supplied account
OwnNumericId ==
    \E i \in 1..Len(raw.service.account) :
       /\ raw.service.account[i].accountId = SuppliedAccount
       /\ \E j \in 1..Len(raw.service.account[i].container) :
             raw.service.account[i].container[j].containerId = SuppliedContainer

\* C37: in a run that reaches step 4 with a container identifier, the
\* accounts and containers are listed exactly when neither the command line
\* nor the environment supplies an account ID; with an account ID supplied
\* the identifier goes unchecked and unchanged into the parent path of the
\* remote requests.
C37_ResolutionIffNoAccount ==
    (pc # "identifiers" /\ SuppliedContainer # Missing) =>
       /\ returned.resolution <=> SuppliedAccount = Missing
       /\ (lastCall.op = "listAccounts" \/ returned.resolution)
             => SuppliedAccount = Missing
       /\ SuppliedAccount # Missing =>
             /\ returned.outcome \notin {"ValueError", "HttpError"}
             /\ returned.parent =
                   "accounts/" \o SuppliedAccount \o "/containers/"
                      \o SuppliedContainer
             /\ lastCall.op = "listWorkspaces" =>
                   lastCall.name = returned.parent
             /\ pc = "workspaces_listed" => lastCall.op = "listWorkspaces"

\* account a1 is supplied with the public ID GTM-X, which is no numeric ID
\* of a container of a1: it is the container ID of the parent path
C37_Witness ==
    /\ pc = "workspaces_listed"
    /\ raw.args = [account_id |-> "a1", container_id |-> "GTM-X"]
    /\ ~OwnNumericId
    /\ ~returned.resolution
    /\ lastCall = Call("listWorkspaces", "accounts/a1/containers/GTM-X")

\* the default type of a sheet
DefaultType(sheet) ==
    IF sheet = "Triggers" THEN "PAGEVIEW"
    ELSE IF sheet = "Tags" THEN "html"
    ELSE "v"

\* the rows of a sheet that have a name
Named(sheet) ==
    IF sheet \in DOMAIN raw
      THEN SelectSeq(raw[sheet], LAMBDA row : row.name # NaN)
      ELSE <<>>

\* entry i of a sheet has its row's name, and its row's type or, when the
\* row has none, the default type of the sheet
TypedOrDefault(sheet, entries) ==
    /\ Len(entries) = Len(Named(sheet))
    /\ \A i \in 1..Len(entries) :
          /\ entries[i].name = Named(sheet)[i].name
          /\ entries[i].type =
                IF Named(sheet)[i].type \in {NaN, Absent}
                  THEN DefaultType(sheet)
                  ELSE Named(sheet)[i].type

\* C38: a row with a name but no type, its sheet lacking the type column or
\* its type cell being empty, gets the default type of its sheet (PAGEVIEW,
\* html, v); a row with an empty name cell yields no entry.
C38_DefaultType ==
    pc = "excel_parsed" =>
       /\ TypedOrDefault("Variables", returned.variables)
       /\ TypedOrDefault("Triggers", returned.triggers)
       /\ TypedOrDefault("Tags", returned.tags)

====
